---- MODULE Spec2Model ----
(***************************************************************************)
(* A model of the TikZ CAD canvas interaction engine: the App component    *)
(* (src/unnamed/part_000: shape collection, selection, undo/redo stacks,   *)
(* transform operations, keyboard handler) and the CartesianCanvas         *)
(* component (the second component of src/components/HelpModal.tsx, lines  *)
(* 181-926: coordinate transforms, hit-testing, pointer handlers).         *)
(*                                                                         *)
(* Numbers.  Every grid coordinate is an integer number of thousandths of  *)
(* a grid unit (0.5 grid units = 500, the nudge step 0.1 = 100), every     *)
(* pointer coordinate an integer number of pixels measured from the centre *)
(* of the viewport (clientX - rect.left - width/2), every projected screen *)
(* coordinate an integer number of hundredths of a pixel, and every angle  *)
(* an integer number of eighths of a turn (pi/4).  JavaScript computes in  *)
(* binary floating point; the model computes exactly, on inputs for which  *)
(* the exact results are representable (rotations by multiples of a        *)
(* quarter turn, mirror lines along the axes and diagonals).               *)
(*                                                                         *)
(* Optional fields (cx1?, points?, rotation?, ...) hold <<>> when they are *)
(* undefined and <<v>> when they hold v.                                   *)
(*                                                                         *)
(* React state is read as of the last render and every handler runs to     *)
(* completion, with the effects its state changes trigger, before the next *)
(* event is delivered: one action per handler.                             *)
(***************************************************************************)
EXTENDS Integers, Sequences, FiniteSets, TLC

VARIABLES
  \* App (src/unnamed/part_000)
  shapes,            \* Shape[]: the collection, in drawing order
  history,           \* Shape[][]: the undo stack, top last
  future,            \* Shape[][]: the redo stack, top last
  selectedShapeIds,  \* Set<string>
  mode,              \* DrawingMode
  clipboard,         \* Shape[] | null
  isSnapEnabled,     \* boolean
  nextId,            \* the ids Math.random() has handed out so far, plus one
  \* CartesianCanvas (src/components/HelpModal.tsx)
  scale,             \* pixels per grid unit
  offset,            \* pan offset, pixels
  isDragging,
  dragStart,
  drawStart,
  currentShape,
  selectionBox,
  editHandle,
  initialShapeState,
  \* App and TikzExportModal (src/unnamed/part_000, src/components/HelpModal.tsx)
  isExportModalOpen, \* boolean: the isOpen prop of the export dialog
  aiCode,            \* string | null
  isGenerating,      \* boolean
  pending,           \* the activations of generateAiTikz awaiting sendChatMessage
  \* sendChatMessage (src/services/geminiService.ts)
  call               \* one activation of sendChatMessage

appVars    == <<shapes, history, future, selectedShapeIds, mode, clipboard, nextId>>
canvasVars == <<scale, offset, isDragging, dragStart, drawStart, currentShape,
                selectionBox, editHandle, initialShapeState>>
exportVars == <<isExportModalOpen, aiCode, isGenerating, pending, call>>
vars       == <<shapes, history, future, selectedShapeIds, mode, clipboard,
                isSnapEnabled, nextId, scale, offset, isDragging, dragStart,
                drawStart, currentShape, selectionBox, editHandle,
                initialShapeState, isExportModalOpen, aiCode, isGenerating,
                pending, call>>

-----------------------------------------------------------------------------
(* Bounds of the model. *)

\* The id generator hands out at most MaxId ids.
MaxId == 1
\* The undo stack holds at most MaxHist snapshots.
MaxHist == 3
\* No coordinate of a stored shape leaves [-MaxCoord, MaxCoord].
MaxCoord == 1000

-----------------------------------------------------------------------------
(* Optional values, sequences. *)

None == <<>>
Some(v) == <<v>>
IsSome(o) == o # <<>>
Val(o) == o[1]
\* JavaScript's `o || d`
OrElse(o, d) == IF o = <<>> THEN d ELSE o[1]
\* JavaScript's truthiness of an optional number: undefined and 0 are falsy
Truthy(o) == o # <<>> /\ o[1] # 0

Last(s) == s[Len(s)]
Front(s) == SubSeq(s, 1, Len(s) - 1)
Range(s) == {s[i] : i \in 1..Len(s)}
Abs(a) == IF a < 0 THEN -a ELSE a
Min2(a, b) == IF a <= b THEN a ELSE b
Max2(a, b) == IF a >= b THEN a ELSE b

Ids(ss) == {ss[i].id : i \in 1..Len(ss)}
\* shapes.filter(s => sel.has(s.id))
Selected(ss, sel) == LET Has(s) == s.id \in sel IN SelectSeq(ss, Has)
\* shapes.filter(s => !sel.has(s.id))
Unselected(ss, sel) == LET HasNot(s) == s.id \notin sel IN SelectSeq(ss, HasNot)

-----------------------------------------------------------------------------
(* The shape record. *)

DrawingMode ==
  {"pan", "freehand", "line", "bezier", "rect", "round_rect", "circle", "ellipse",
   "arc", "measure", "measure_radius", "mark_angle", "brace", "text",
   "circular_pattern", "mirror_axis"}

\* The variant set of the shape types (spec.md section 3)
ShapeTypes ==
  {"freehand", "line", "bezier", "rect", "round_rect", "circle", "ellipse", "arc",
   "measure", "measure_radius", "mark_angle", "brace", "text"}

\* A Shape with the required fields given and every optional field undefined.
NewShape(id, type, x1, y1, x2, y2, style, arrow, lineWidth) ==
  [id |-> id, type |-> type, x1 |-> x1, y1 |-> y1, x2 |-> x2, y2 |-> y2,
   cx1 |-> None, cy1 |-> None, cx2 |-> None, cy2 |-> None,
   text |-> None, textX |-> None, textY |-> None,
   style |-> style, arrow |-> arrow, lineWidth |-> lineWidth,
   fillColor |-> None, strokeColor |-> None,
   points |-> None, rotation |-> None, startAngle |-> None, endAngle |-> None,
   isGuide |-> FALSE]

Pt(x, y) == [x |-> x, y |-> y]

\* points.map(p => ({x: p.x + dx, y: p.y + dy})) on an optional point list
MovePoints(pts, dx, dy) ==
  IF pts = None THEN None
  ELSE Some([i \in 1..Len(pts[1]) |-> Pt(pts[1][i].x + dx, pts[1][i].y + dy)])

\* o + d when o is defined
AddIfDefined(o, d) == IF o = None THEN None ELSE Some(o[1] + d)
\* o + d when o is truthy (`if (s.cx1) ns.cx1 = s.cx1 + d`)
AddIfTruthy(o, d) == IF Truthy(o) THEN Some(o[1] + d) ELSE o

-----------------------------------------------------------------------------
(* Geometry helpers: comparisons of distances, computed exactly. *)

Sq(a) == a * a

RECURSIVE FracLess(_, _, _, _)
\* n1/d1 < n2/d2 for n1, n2 >= 0 and d1, d2 > 0, by continued fractions
FracLess(n1, d1, n2, d2) ==
  LET q1 == n1 \div d1
      q2 == n2 \div d2
      r1 == n1 % d1
      r2 == n2 % d2
  IN IF q1 # q2 THEN q1 < q2
     ELSE IF r2 = 0 THEN FALSE
     ELSE IF r1 = 0 THEN TRUE
     ELSE FracLess(d2, r2, d1, r1)

\* a*b < c*d for a, b, c, d >= 0, without forming the products
MulLess(a, b, c, d) ==
  IF a = 0 \/ b = 0 THEN c > 0 /\ d > 0
  ELSE IF c = 0 \/ d = 0 THEN FALSE
  ELSE FracLess(a, d, c, b)

\* l < c * sqrt(r2) for integers l, c and r2 >= 0
SqrtLess(l, c, r2) ==
  IF c >= 0
  THEN IF l < 0 THEN TRUE ELSE MulLess(l, l, c * c, r2)
  ELSE IF l >= 0 THEN FALSE ELSE MulLess(c * c, r2, -l, -l)

\* dist(p1, p2) squared
dist2(p1, p2) == Sq(p1.x - p2.x) + Sq(p1.y - p2.y)

\* dist(p1, p2) < t
distLess(p1, p2, t) == dist2(p1, p2) < t * t

\* distToSegment(p, v, w) < t
distToSegmentLess(p, v, w, t) ==
  LET l2  == dist2(v, w)
      dot == (p.x - v.x) * (w.x - v.x) + (p.y - v.y) * (w.y - v.y)
      k   == dist2(p, v) - t * t
  IN IF l2 = 0 THEN distLess(p, v, t)
     ELSE IF dot <= 0 THEN distLess(p, v, t)        \* t clamped to 0
     ELSE IF dot >= l2 THEN distLess(p, w, t)       \* t clamped to 1
     ELSE k < 0 \/ MulLess(k, l2, dot, dot)

isPointInRect(px, py, x1, y1, x2, y2) ==
  /\ px >= Min2(x1, x2) /\ px <= Max2(x1, x2)
  /\ py >= Min2(y1, y2) /\ py <= Max2(y1, y2)

-----------------------------------------------------------------------------
(* CartesianCanvas: coordinate transforms (HelpModal.tsx 315-332). *)

\* Pointer pixels (from the viewport centre) to thousandths of a grid unit.
screenToGrid(sx, sy) ==
  Pt(((sx - offset.x) * 1000) \div scale, ((offset.y - sy) * 1000) \div scale)

\* Thousandths of a grid unit to hundredths of a pixel (from the viewport centre).
gridToScreen(gx, gy) ==
  Pt((gx * scale) \div 10 + 100 * offset.x, (-gy * scale) \div 10 + 100 * offset.y)

\* A snap to the nearest quarter of a grid unit.
snapToQuarter(val) == ((4 * val + 500) \div 1000) * 250

\* Math.round(val * 2) / 2: the nearest half grid unit, a tie going up
snapOn(val) == ((2 * val + 500) \div 1000) * 500

\* A snap that is never applied.
snapNever(val) == val

snap(val) == IF ~isSnapEnabled THEN val ELSE snapOn(val)

-----------------------------------------------------------------------------
(* CartesianCanvas: handles and hit-testing (HelpModal.tsx 334-439). *)

\* const THRESHOLD = 8, in pixels
THRESHOLD == 8
\* the radius of a text label's hit box, in pixels
TEXT_HIT_RADIUS == 20

isBoxShape(type) == type \in {"rect", "round_rect", "ellipse", "text", "arc"}

\* A handle at (x + rx*r, y + ry*r) where r = sqrt(r2), in hundredths of a pixel.
Handle(x, y, rx, ry, r2, type) ==
  [x |-> x, y |-> y, rx |-> rx, ry |-> ry, r2 |-> r2, type |-> type]

getResizeHandles(shape) ==
  LET p1 == gridToScreen(shape.x1, shape.y1)
      p2 == gridToScreen(shape.x2, shape.y2)
      r2 == dist2(p1, p2)
      minX == Min2(p1.x, p2.x)
      maxX == Max2(p1.x, p2.x)
      minY == Min2(p1.y, p2.y)
      maxY == Max2(p1.y, p2.y)
      midX == (minX + maxX) \div 2
      midY == (minY + maxY) \div 2
  IN IF shape.type \in {"line", "measure", "measure_radius", "brace", "bezier", "freehand"}
     THEN << Handle(p1.x, p1.y, 0, 0, 0, "start"), Handle(p2.x, p2.y, 0, 0, 0, "end") >>
     ELSE IF shape.type = "circle"
     THEN << Handle(p1.x, p1.y, 0, 0, 0, "start"),
             Handle(p1.x, p1.y, 1, 0, r2, "end"),
             Handle(p1.x, p1.y, -1, 0, r2, "end"),
             Handle(p1.x, p1.y, 0, -1, r2, "end"),
             Handle(p1.x, p1.y, 0, 1, r2, "end") >>
     ELSE IF isBoxShape(shape.type)
     THEN << Handle(minX, minY, 0, 0, 0, "nw"), Handle(maxX, minY, 0, 0, 0, "ne"),
             Handle(maxX, maxY, 0, 0, 0, "se"), Handle(minX, maxY, 0, 0, 0, "sw"),
             Handle(midX, minY, 0, 0, 0, "n"), Handle(midX, maxY, 0, 0, 0, "s"),
             Handle(maxX, midY, 0, 0, 0, "e"), Handle(minX, midY, 0, 0, 0, "w") >>
     ELSE << >>

\* dist(m, h) < t for a handle h
handleNear(m, h, t) ==
  LET a == m.x - h.x
      b == m.y - h.y
  IN IF h.rx = 0 /\ h.ry = 0 THEN Sq(a) + Sq(b) < t * t
     ELSE SqrtLess(Sq(a) + Sq(b) + h.r2 - t * t, 2 * (a * h.rx + b * h.ry), h.r2)

\* step 2 of hitTest for one shape: whether the pointer m is on its body
bodyHit(s, m) ==
  LET t  == 100 * THRESHOLD
      p1 == gridToScreen(s.x1, s.y1)
      p2 == gridToScreen(s.x2, s.y2)
      filled == s.fillColor # None /\ s.fillColor # Some("none")
      minX == Min2(p1.x, p2.x)
      maxX == Max2(p1.x, p2.x)
      minY == Min2(p1.y, p2.y)
      maxY == Max2(p1.y, p2.y)
      r2 == dist2(p1, p2)
      d2 == dist2(m, p1)
      cp1 == IF Truthy(s.cx1) THEN gridToScreen(s.cx1[1], OrElse(s.cy1, 0)) ELSE p1
      cp2 == IF Truthy(s.cx2) THEN gridToScreen(s.cx2[1], OrElse(s.cy2, 0)) ELSE p2
  IN CASE s.type \in {"line", "measure", "measure_radius"} ->
            distToSegmentLess(m, p1, p2, t)
       [] s.type \in {"rect", "round_rect"} ->
            IF filled THEN isPointInRect(m.x, m.y, p1.x, p1.y, p2.x, p2.y)
            ELSE \/ /\ m.y >= minY /\ m.y <= maxY
                    /\ (Abs(m.x - minX) < t \/ Abs(m.x - maxX) < t)
                 \/ /\ m.x >= minX /\ m.x <= maxX
                    /\ (Abs(m.y - minY) < t \/ Abs(m.y - maxY) < t)
       [] s.type = "circle" ->
            IF filled THEN d2 <= r2
            ELSE \* Math.abs(d - r) < THRESHOLD
                 /\ SqrtLess(d2 - r2 - t * t, 2 * t, r2)
                 /\ SqrtLess(r2 - d2 - t * t, 2 * t, d2)
       [] s.type = "text" -> distLess(m, p1, 100 * TEXT_HIT_RADIUS)
       [] s.type = "bezier" ->
            \/ distToSegmentLess(m, p1, cp1, t)
            \/ distToSegmentLess(m, cp1, cp2, t)
            \/ distToSegmentLess(m, cp2, p2, t)
       [] OTHER -> FALSE

\* A hit test that tries the bodies before the handles of the selected shape.
hitTestInBodiesFirst(ss, sel, mx, my) ==
  LET m == Pt(100 * mx, 100 * my)
      t == 100 * THRESHOLD
      sId == CHOOSE i \in sel : TRUE
      found == {i \in 1..Len(ss) : ss[i].id = sId}
      s == ss[CHOOSE i \in found : \A j \in found : i <= j]
      hs == getResizeHandles(s)
      near == {i \in 1..Len(hs) : handleNear(m, hs[i], t)}
      bodies == {i \in 1..Len(ss) : ~ss[i].isGuide /\ bodyHit(ss[i], m)}
  IN IF bodies # {}
     THEN [id |-> ss[CHOOSE i \in bodies : \A j \in bodies : i >= j].id, handle |-> "null"]
     ELSE IF Cardinality(sel) = 1 /\ found # {} /\ near # {}
     THEN [id |-> sId, handle |-> hs[CHOOSE i \in near : \A j \in near : i <= j].type]
     ELSE [id |-> 0, handle |-> "null"]

\* A hit test whose body loop runs from the first shape to the last and
\* returns the earliest shape under the pointer.
hitTestInEarliest(ss, sel, mx, my) ==
  LET m == Pt(100 * mx, 100 * my)
      t == 100 * THRESHOLD
      sId == CHOOSE i \in sel : TRUE
      found == {i \in 1..Len(ss) : ss[i].id = sId}
      s == ss[CHOOSE i \in found : \A j \in found : i <= j]
      hs == getResizeHandles(s)
      near == {i \in 1..Len(hs) : handleNear(m, hs[i], t)}
      bodies == {i \in 1..Len(ss) : ~ss[i].isGuide /\ bodyHit(ss[i], m)}
  IN IF Cardinality(sel) = 1 /\ found # {} /\ near # {}
     THEN [id |-> sId, handle |-> hs[CHOOSE i \in near : \A j \in near : i <= j].type]
     ELSE IF bodies # {}
     THEN [id |-> ss[CHOOSE i \in bodies : \A j \in bodies : i <= j].id, handle |-> "null"]
     ELSE [id |-> 0, handle |-> "null"]

\* hitTest(mx, my) in the state (ss, sel): [id, handle], id = 0 and handle = "null"
\* standing for null.
hitTestIn(ss, sel, mx, my) ==
  LET m == Pt(100 * mx, 100 * my)
      t == 100 * THRESHOLD
      sId == CHOOSE i \in sel : TRUE
      found == {i \in 1..Len(ss) : ss[i].id = sId}
      s == ss[CHOOSE i \in found : \A j \in found : i <= j]
      hs == getResizeHandles(s)
      near == {i \in 1..Len(hs) : handleNear(m, hs[i], t)}
      bodies == {i \in 1..Len(ss) : ~ss[i].isGuide /\ bodyHit(ss[i], m)}
  IN IF Cardinality(sel) = 1 /\ found # {} /\ near # {}
     THEN [id |-> sId, handle |-> hs[CHOOSE i \in near : \A j \in near : i <= j].type]
     ELSE IF bodies # {}
     THEN [id |-> ss[CHOOSE i \in bodies : \A j \in bodies : i >= j].id, handle |-> "null"]
     ELSE [id |-> 0, handle |-> "null"]

hitTest(mx, my) == hitTestIn(shapes, selectedShapeIds, mx, my)

-----------------------------------------------------------------------------
(* App: the state the handlers of src/unnamed/part_000 read and write, as   *)
(* a record, and every handler as an operator from that record to the      *)
(* record after the handler.  A handler reads the state of the last render *)
(* (its closure); the k-th id Math.random() produces is nextId + k - 1.    *)

App ==
  [shapes |-> shapes, history |-> history, future |-> future,
   sel |-> selectedShapeIds, mode |-> mode, clipboard |-> clipboard,
   nextId |-> nextId]

\* saveHistory, called from a handler whose closure holds the collection cs
saveHistoryOf(a, cs) ==
  [a EXCEPT !.history = Append(@, cs), !.future = <<>>]

saveHistory(a) == saveHistoryOf(a, a.shapes)

\* A pruning that keeps every id: the selection as undo and redo would leave
\* it without the filter on the restored collection.
Unpruned(sel, ss) == sel

\* the selection pruned to the ids of the collection ss
Pruned(sel, ss) == {id \in sel : id \in Ids(ss)}

handleUndo(a) ==
  IF Len(a.history) = 0 THEN a
  ELSE LET previousShapes == Last(a.history)
       IN [a EXCEPT !.future = Append(@, a.shapes),
                    !.shapes = previousShapes,
                    !.history = Front(@),
                    !.sel = Pruned(@, previousShapes)]

handleRedo(a) ==
  IF Len(a.future) = 0 THEN a
  ELSE LET nextShapes == Last(a.future)
       IN [a EXCEPT !.history = Append(@, a.shapes),
                    !.shapes = nextShapes,
                    !.future = Front(@),
                    !.sel = Pruned(@, nextShapes)]

handleSelectAll(a) == [a EXCEPT !.sel = Ids(a.shapes)]

\* prev.map(s => updatedShapes.find(u => u.id === s.id) || s)
UpdatedBy(ss, updated) ==
  [i \in 1..Len(ss) |->
     LET us == {j \in 1..Len(updated) : updated[j].id = ss[i].id}
     IN IF us = {} THEN ss[i] ELSE updated[CHOOSE j \in us : \A k \in us : j <= k]]

handleShapesUpdate(a, updatedShapes) ==
  [a EXCEPT !.shapes = UpdatedBy(@, updatedShapes)]

handleShapeAdd(a, shape) ==
  [saveHistory(a) EXCEPT !.shapes = Append(@, shape)]

handleInteractionStart(a) == saveHistory(a)

\* A selection change that adds the ids to the selection.
handleSelectionChangeAdding(a, ids) == [a EXCEPT !.sel = @ \cup ids]

handleSelectionChange(a, ids) == [a EXCEPT !.sel = ids]

\* newShapes come from the template collaborator, with ids of its own making
handleAddTemplate(a, newShapes) ==
  [saveHistory(a) EXCEPT !.shapes = @ \o newShapes,
                         !.sel = Ids(newShapes),
                         !.mode = "pan",
                         !.nextId = @ + Len(newShapes)]

\* const offset = 2 (grid units) of handleDuplicate and handlePaste
DUP_OFFSET == 2000

\* The copy handleDuplicate and handlePaste make of one shape.
OffsetCopy(shape, id) ==
  LET moved == [shape EXCEPT !.id = id,
                             !.x1 = @ + DUP_OFFSET, !.y1 = @ - DUP_OFFSET,
                             !.x2 = @ + DUP_OFFSET, !.y2 = @ - DUP_OFFSET,
                             !.points = MovePoints(@, DUP_OFFSET, -DUP_OFFSET)]
  IN IF shape.type \in {"bezier", "measure"}
     THEN [moved EXCEPT !.cx1 = AddIfTruthy(@, DUP_OFFSET),
                        !.cy1 = AddIfTruthy(@, -DUP_OFFSET),
                        !.cx2 = AddIfTruthy(@, DUP_OFFSET),
                        !.cy2 = AddIfTruthy(@, -DUP_OFFSET)]
     ELSE moved

\* The copies with the ids of their sources: what duplicate and paste would
\* append without a fresh id per copy.
OffsetCopiesKeepingIds(src, from) ==
  [i \in 1..Len(src) |-> OffsetCopy(src[i], src[i].id)]

\* One OffsetCopy per shape of src, with the ids from, from + 1, ...
OffsetCopies(src, from) ==
  [i \in 1..Len(src) |-> OffsetCopy(src[i], from + i - 1)]

handleDuplicate(a) ==
  IF a.sel = {} THEN a
  ELSE LET newShapes == OffsetCopies(Selected(a.shapes, a.sel), a.nextId)
       IN [saveHistory(a) EXCEPT !.shapes = @ \o newShapes,
                                 !.sel = Ids(newShapes),
                                 !.nextId = @ + Len(newShapes)]

handleCopy(a) ==
  IF a.sel # {} THEN [a EXCEPT !.clipboard = Some(Selected(a.shapes, a.sel))] ELSE a

handlePaste(a) ==
  IF a.clipboard # None /\ Len(a.clipboard[1]) > 0
  THEN LET newShapes == OffsetCopies(a.clipboard[1], a.nextId)
       IN [saveHistory(a) EXCEPT !.shapes = @ \o newShapes,
                                 !.sel = Ids(newShapes),
                                 !.nextId = @ + Len(newShapes)]
  ELSE a

\* A copy with the endpoints moved and nothing else: what the pattern would
\* make without the adjustment of control points, label anchor and points.
LinearCopyOfEndpoints(shape, id, offX, offY) ==
  [shape EXCEPT !.id = id,
                !.x1 = @ + offX, !.y1 = @ + offY, !.x2 = @ + offX, !.y2 = @ + offY]

\* The copy handleLinearPattern makes of a shape at the offset (offX, offY).
LinearCopy(shape, id, offX, offY) ==
  [shape EXCEPT !.id = id,
                !.x1 = @ + offX, !.y1 = @ + offY, !.x2 = @ + offX, !.y2 = @ + offY,
                !.cx1 = AddIfDefined(@, offX), !.cy1 = AddIfDefined(@, offY),
                !.cx2 = AddIfDefined(@, offX), !.cy2 = AddIfDefined(@, offY),
                !.textX = AddIfDefined(@, offX), !.textY = AddIfDefined(@, offY),
                !.points = MovePoints(@, offX, offY)]

\* The step vector of a pattern direction.
PatternDx(dir, spacing) ==
  IF dir = "horizontal" THEN spacing ELSE IF dir = "horizontal_neg" THEN -spacing ELSE 0
PatternDy(dir, spacing) ==
  IF dir = "vertical" THEN spacing ELSE IF dir = "vertical_neg" THEN -spacing ELSE 0

handleLinearPattern(a, patternDirection, patternCount, patternSpacing) ==
  IF a.sel = {} THEN a
  ELSE IF patternCount < 2 THEN a
  ELSE LET src == Selected(a.shapes, a.sel)
           per == patternCount - 1
           dx  == PatternDx(patternDirection, patternSpacing)
           dy  == PatternDy(patternDirection, patternSpacing)
           newShapes ==
             [k \in 1..(Len(src) * per) |->
                LET i == ((k - 1) % per) + 1
                IN LinearCopy(src[((k - 1) \div per) + 1], a.nextId + k - 1, dx * i, dy * i)]
       IN [saveHistory(a) EXCEPT !.shapes = @ \o newShapes,
                                 !.sel = Ids(src) \cup Ids(newShapes),
                                 !.nextId = @ + Len(newShapes)]

RECURSIVE ISqrtIn(_, _, _)
\* the largest r in lo..hi with r*r <= n
ISqrtIn(n, lo, hi) ==
  IF lo >= hi THEN lo
  ELSE LET mid == (lo + hi + 1) \div 2
       IN IF mid * mid <= n THEN ISqrtIn(n, mid, hi) ELSE ISqrtIn(n, lo, mid - 1)
\* Math.sqrt(n), exact on the squares and rounded down to a thousandth of a
\* grid unit elsewhere
Sqrt(n) == ISqrtIn(n, 0, 20000)

SetMin(S) == CHOOSE m \in S : \A v \in S : m <= v
SetMax(S) == CHOOSE m \in S : \A v \in S : m >= v

\* rotatePoint by q quarter turns about (pivotX, pivotY): cos and sin of a
\* multiple of pi/2 are 0, 1 or -1
rotatePoint(x, y, pivotX, pivotY, q) ==
  LET cos == CASE q % 4 = 0 -> 1 [] q % 4 = 2 -> -1 [] OTHER -> 0
      sin == CASE q % 4 = 1 -> 1 [] q % 4 = 3 -> -1 [] OTHER -> 0
  IN Pt((cos * (x - pivotX)) - (sin * (y - pivotY)) + pivotX,
        (sin * (x - pivotX)) + (cos * (y - pivotY)) + pivotY)

\* The angle of copy i with a step of a quarter turn whatever the count.
QuarterTurnsOfIndex(i, circularCount) == i

\* i * (2 * Math.PI / circularCount) in quarter turns; the model draws
\* circularCount from the counts for which this is a whole number
QuarterTurns(i, circularCount) == (4 * i) \div circularCount

\* An optional point (ox, oy) rotated when ox is defined.
RotOptX(ox, oy, px, py, q) ==
  IF ox = None THEN ox ELSE Some(rotatePoint(ox[1], OrElse(oy, 0), px, py, q).x)
RotOptY(ox, oy, px, py, q) ==
  IF ox = None THEN oy ELSE Some(rotatePoint(ox[1], OrElse(oy, 0), px, py, q).y)

CenterTypes == {"circle", "ellipse", "arc", "text"}
CircularBoxBased == {"rect", "text", "arc", "ellipse", "circle", "round_rect"}

\* A copy that turns the two anchor points of every shape about the pivot,
\* box-based or not, and leaves the rotation property alone.
CircularCopyOfEndpoints(s, id, cx, cy, q) ==
  LET p1 == rotatePoint(s.x1, s.y1, cx, cy, q)
      p2 == rotatePoint(s.x2, s.y2, cx, cy, q)
  IN [s EXCEPT !.id = id, !.x1 = p1.x, !.y1 = p1.y, !.x2 = p2.x, !.y2 = p2.y]

\* The copy handleCircularPatternCenter makes of s, q quarter turns about (cx, cy).
CircularCopy(s, id, cx, cy, q) ==
  IF s.type \in CircularBoxBased
  THEN LET midX == IF s.type \in CenterTypes THEN s.x1 ELSE (s.x1 + s.x2) \div 2
           midY == IF s.type \in CenterTypes THEN s.y1 ELSE (s.y1 + s.y2) \div 2
           rc   == rotatePoint(midX, midY, cx, cy, q)
           dx   == s.x2 - s.x1
           dy   == s.y2 - s.y1
           ctr  == s.type \in CenterTypes
       IN [s EXCEPT !.id = id,
                    !.x1 = IF ctr THEN rc.x ELSE rc.x - (dx \div 2),
                    !.y1 = IF ctr THEN rc.y ELSE rc.y - (dy \div 2),
                    !.x2 = IF ctr THEN rc.x + dx ELSE rc.x + (dx \div 2),
                    !.y2 = IF ctr THEN rc.y + dy ELSE rc.y + (dy \div 2),
                    !.cx1 = RotOptX(s.cx1, s.cy1, midX, midY, q),
                    !.cy1 = RotOptY(s.cx1, s.cy1, midX, midY, q),
                    !.cx2 = RotOptX(s.cx2, s.cy2, midX, midY, q),
                    !.cy2 = RotOptY(s.cx2, s.cy2, midX, midY, q),
                    !.textX = RotOptX(s.textX, s.textY, midX, midY, q),
                    !.textY = RotOptY(s.textX, s.textY, midX, midY, q),
                    !.rotation = Some(OrElse(s.rotation, 0) + 2 * q)]
  ELSE LET p1 == rotatePoint(s.x1, s.y1, cx, cy, q)
           p2 == rotatePoint(s.x2, s.y2, cx, cy, q)
       IN [s EXCEPT !.id = id,
                    !.x1 = p1.x, !.y1 = p1.y, !.x2 = p2.x, !.y2 = p2.y,
                    !.cx1 = RotOptX(s.cx1, s.cy1, cx, cy, q),
                    !.cy1 = RotOptY(s.cx1, s.cy1, cx, cy, q),
                    !.cx2 = RotOptX(s.cx2, s.cy2, cx, cy, q),
                    !.cy2 = RotOptY(s.cx2, s.cy2, cx, cy, q),
                    !.textX = RotOptX(s.textX, s.textY, cx, cy, q),
                    !.textY = RotOptY(s.textX, s.textY, cx, cy, q),
                    !.points = IF s.points = None THEN None
                               ELSE Some([j \in 1..Len(s.points[1]) |->
                                            rotatePoint(s.points[1][j].x, s.points[1][j].y,
                                                        cx, cy, q)])]

\* The dashed guide circle of a circular pattern about (cx, cy).
GuideCircle(id, cx, cy, radius) ==
  [NewShape(id, "circle", cx, cy, cx + radius, cy, "dashed", "none", 1)
     EXCEPT !.strokeColor = Some("#94a3b8"), !.fillColor = Some("none"),
            !.isGuide = TRUE]

\* handleCircularPatternCenter, called from a handler whose closure holds c
handleCircularPatternCenterOf(a, c, cx, cy, circularCount) ==
  IF c.sel = {} \/ circularCount < 2 THEN a
  ELSE LET src  == Selected(c.shapes, c.sel)
           xs   == {src[i].x1 : i \in 1..Len(src)} \cup {src[i].x2 : i \in 1..Len(src)}
           ys   == {src[i].y1 : i \in 1..Len(src)} \cup {src[i].y2 : i \in 1..Len(src)}
           selCenterX == (SetMin(xs) + SetMax(xs)) \div 2
           selCenterY == (SetMin(ys) + SetMax(ys)) \div 2
           radius == Sqrt(Sq(selCenterX - cx) + Sq(selCenterY - cy))
           per  == circularCount - 1
           copies ==
             [k \in 1..(Len(src) * per) |->
                CircularCopy(src[((k - 1) \div per) + 1], c.nextId + k, cx, cy,
                             QuarterTurns(((k - 1) % per) + 1, circularCount))]
           newShapes == <<GuideCircle(c.nextId, cx, cy, radius)>> \o copies
       IN [saveHistoryOf(a, c.shapes) EXCEPT
             !.shapes = @ \o newShapes,
             !.sel = Ids(src) \cup Ids(copies),
             !.mode = "pan",
             !.nextId = c.nextId + Len(newShapes)]

handleCircularPatternCenter(a, cx, cy, circularCount) ==
  handleCircularPatternCenterOf(a, a, cx, cy, circularCount)

\* A skip rule that lets through the shapes whose inset size is zero.
CanOffsetOrFlat(s, dist) ==
  CASE s.type \in {"rect", "round_rect"} ->
         /\ Max2(s.x1, s.x2) - dist >= Min2(s.x1, s.x2) + dist
         /\ Max2(s.y1, s.y2) - dist >= Min2(s.y1, s.y2) + dist
    [] s.type = "circle" ->
         dist <= 0 \/ Sq(dist) <= Sq(s.x2 - s.x1) + Sq(s.y2 - s.y1)
    [] s.type = "ellipse" ->
         Abs(s.x2 - s.x1) - dist >= 0 /\ Abs(s.y2 - s.y1) - dist >= 0
    [] OTHER -> FALSE

\* Whether handleOffset makes an inner copy of s at the distance dist.
CanOffset(s, dist) ==
  CASE s.type \in {"rect", "round_rect"} ->
         /\ Max2(s.x1, s.x2) - dist > Min2(s.x1, s.x2) + dist
         /\ Max2(s.y1, s.y2) - dist > Min2(s.y1, s.y2) + dist
    [] s.type = "circle" ->
         \* radius - dist > 0
         dist < 0 \/ Sq(dist) < Sq(s.x2 - s.x1) + Sq(s.y2 - s.y1)
    [] s.type = "ellipse" ->
         Abs(s.x2 - s.x1) - dist > 0 /\ Abs(s.y2 - s.y1) - dist > 0
    [] OTHER -> FALSE

\* The inner copy handleOffset makes of s.  The rim point of a circle moves
\* along its radius: exact when the rim point lies on an axis through
\* the centre, rounded down to a thousandth elsewhere.
OffsetCopyOf(s, id, dist) ==
  CASE s.type \in {"rect", "round_rect"} ->
         [s EXCEPT !.id = id,
                   !.x1 = Min2(s.x1, s.x2) + dist, !.y1 = Min2(s.y1, s.y2) + dist,
                   !.x2 = Max2(s.x1, s.x2) - dist, !.y2 = Max2(s.y1, s.y2) - dist]
    [] s.type = "circle" ->
         LET radius == Sqrt(Sq(s.x2 - s.x1) + Sq(s.y2 - s.y1))
             newRadius == radius - dist
         IN [s EXCEPT !.id = id,
                      !.x2 = s.x1 + (newRadius * (s.x2 - s.x1)) \div radius,
                      !.y2 = s.y1 + (newRadius * (s.y2 - s.y1)) \div radius]
    [] OTHER ->
         LET signX == IF s.x2 >= s.x1 THEN 1 ELSE -1
             signY == IF s.y2 >= s.y1 THEN 1 ELSE -1
         IN [s EXCEPT !.id = id,
                      !.x2 = s.x1 + signX * (Abs(s.x2 - s.x1) - dist),
                      !.y2 = s.y1 + signY * (Abs(s.y2 - s.y1) - dist)]

handleOffset(a, offsetDistance) ==
  IF a.sel = {} THEN a
  ELSE LET Can(s) == CanOffset(s, offsetDistance)
           src == SelectSeq(Selected(a.shapes, a.sel), Can)
           newShapes == [i \in 1..Len(src) |->
                           OffsetCopyOf(src[i], a.nextId + i - 1, offsetDistance)]
       IN IF Len(newShapes) > 0
          THEN [saveHistory(a) EXCEPT !.shapes = @ \o newShapes,
                                      !.sel = Ids(newShapes),
                                      !.nextId = @ + Len(newShapes)]
          ELSE saveHistory(a)

handleMirrorTool(a) == IF a.sel = {} THEN a ELSE [a EXCEPT !.mode = "mirror_axis"]

RECURSIVE Gcd(_, _)
Gcd(m, n) == IF n = 0 THEN m ELSE Gcd(n, m % n)

\* n / d rounded to the nearest integer, a tie going up (Math.round), d > 0
RoundDiv(n, d) == (2 * n + d) \div (2 * d)

\* reflectPoint of performMirror: (px, py) reflected across the line through
\* (lineX1, lineY1) and (lineX2, lineY2).  The direction is reduced to lowest
\* terms first.  The code rounds to 4 decimals; the model's unit is the third,
\* and on lines along the axes and the diagonals nothing is rounded at all.
reflectPoint(px, py, lineX1, lineY1, lineX2, lineY2) ==
  LET g  == Gcd(Abs(lineX2 - lineX1), Abs(lineY2 - lineY1))
      dx == IF g = 0 THEN 0 ELSE (lineX2 - lineX1) \div g
      dy == IF g = 0 THEN 0 ELSE (lineY2 - lineY1) \div g
      den == dx * dx + dy * dy
      an == dx * dx - dy * dy
      bn == 2 * dx * dy
  IN IF dx = 0 /\ dy = 0 THEN Pt(px, py)
     ELSE Pt(RoundDiv(an * (px - lineX1) + bn * (py - lineY1), den) + lineX1,
             RoundDiv(bn * (px - lineX1) - an * (py - lineY1), den) + lineY1)

\* The directions whose angle is a whole number of eighths of a turn.
AxisOrDiagonal(dx, dy) == dx = 0 \/ dy = 0 \/ Abs(dx) = Abs(dy)

\* Math.atan2(dy, dx) in eighths of a turn, for a direction along an axis or
\* a diagonal; atan2(0, 0) is 0
atan2(dy, dx) ==
  CASE dy = 0 /\ dx >= 0 -> 0
    [] dy = 0 /\ dx < 0  -> 4
    [] dx = 0 /\ dy > 0  -> 2
    [] dx = 0 /\ dy < 0  -> -2
    [] dx > 0 /\ dy > 0  -> 1
    [] dx < 0 /\ dy > 0  -> 3
    [] dx < 0 /\ dy < 0  -> -3
    [] OTHER             -> -1

ReflOptX(ox, oy, l) ==
  IF ox = None THEN ox
  ELSE Some(reflectPoint(ox[1], OrElse(oy, 0), l.x1, l.y1, l.x2, l.y2).x)
ReflOptY(ox, oy, l) ==
  IF ox = None THEN oy
  ELSE Some(reflectPoint(ox[1], OrElse(oy, 0), l.x1, l.y1, l.x2, l.y2).y)

MirrorBoxBased == {"rect", "round_rect", "text", "circle", "ellipse", "arc"}

\* The copy performMirror makes of s across the line l = [x1, y1, x2, y2].
MirrorCopy(s, id, l) ==
  LET R(px, py) == reflectPoint(px, py, l.x1, l.y1, l.x2, l.y2)
      lineAngle == atan2(l.y2 - l.y1, l.x2 - l.x1)
  IN IF s.type \in MirrorBoxBased
     THEN LET isRect == s.type \in {"rect", "round_rect"}
              cx == IF isRect THEN (s.x1 + s.x2) \div 2 ELSE s.x1
              cy == IF isRect THEN (s.y1 + s.y2) \div 2 ELSE s.y1
              cr == R(cx, cy)
              width  == Abs(s.x2 - s.x1)
              height == Abs(s.y2 - s.y1)
              rP == R(s.x2, s.y2)
              boxed ==
                [s EXCEPT !.id = id,
                          !.x1 = IF isRect THEN cr.x - (width \div 2) ELSE cr.x,
                          !.x2 = IF isRect THEN cr.x + (width \div 2)
                                 ELSE IF s.type = "text" THEN cr.x ELSE rP.x,
                          !.y1 = IF isRect THEN cr.y - (height \div 2) ELSE cr.y,
                          !.y2 = IF isRect THEN cr.y + (height \div 2)
                                 ELSE IF s.type = "text" THEN cr.y ELSE rP.y,
                          !.rotation = Some(2 * lineAngle - OrElse(s.rotation, 0)),
                          !.textX = ReflOptX(s.textX, s.textY, l),
                          !.textY = ReflOptY(s.textX, s.textY, l)]
          IN IF s.type = "arc"
             THEN [boxed EXCEPT !.startAngle = Some(2 * lineAngle - OrElse(s.endAngle, 0)),
                                !.endAngle = Some(2 * lineAngle - OrElse(s.startAngle, 0))]
             ELSE boxed
     ELSE LET p1 == R(s.x1, s.y1)
              p2 == R(s.x2, s.y2)
          IN [s EXCEPT !.id = id,
                       !.x1 = p1.x, !.y1 = p1.y, !.x2 = p2.x, !.y2 = p2.y,
                       !.cx1 = ReflOptX(s.cx1, s.cy1, l),
                       !.cy1 = ReflOptY(s.cx1, s.cy1, l),
                       !.cx2 = ReflOptX(s.cx2, s.cy2, l),
                       !.cy2 = ReflOptY(s.cx2, s.cy2, l),
                       !.points = IF s.points = None THEN None
                                  ELSE Some([j \in 1..Len(s.points[1]) |->
                                               R(s.points[1][j].x, s.points[1][j].y)])]

\* A mirror that, like the patterns, keeps the originals in the selection.
performMirrorKeepingSelection(a, c, lineX1, lineY1, lineX2, lineY2) ==
  LET l == [x1 |-> lineX1, y1 |-> lineY1, x2 |-> lineX2, y2 |-> lineY2]
      src == Selected(c.shapes, c.sel)
      generatedShapes == [i \in 1..Len(src) |-> MirrorCopy(src[i], c.nextId + i - 1, l)]
  IN [saveHistoryOf(a, c.shapes) EXCEPT
        !.shapes = @ \o generatedShapes,
        !.sel = c.sel \cup Ids(generatedShapes),
        !.mode = "pan",
        !.nextId = c.nextId + Len(generatedShapes)]

\* performMirror, called from a handler whose closure holds c
performMirrorOf(a, c, lineX1, lineY1, lineX2, lineY2) ==
  LET l == [x1 |-> lineX1, y1 |-> lineY1, x2 |-> lineX2, y2 |-> lineY2]
      src == Selected(c.shapes, c.sel)
      generatedShapes == [i \in 1..Len(src) |-> MirrorCopy(src[i], c.nextId + i - 1, l)]
  IN [saveHistoryOf(a, c.shapes) EXCEPT
        !.shapes = @ \o generatedShapes,
        !.sel = Ids(generatedShapes),
        !.mode = "pan",
        !.nextId = c.nextId + Len(generatedShapes)]

performMirror(a, lineX1, lineY1, lineX2, lineY2) ==
  performMirrorOf(a, a, lineX1, lineY1, lineX2, lineY2)

handleDelete(a) ==
  IF a.sel # {}
  THEN [saveHistory(a) EXCEPT !.shapes = Unselected(@, a.sel), !.sel = {}]
  ELSE a

\* (r * 2).toFixed(2): the decimal digits of the diameter in hundredths
ToFixed2(thousandths) == ToString((thousandths + 5) \div 10)

handleAddDiameter(a, strokeColor) ==
  IF Cardinality(a.sel) # 1 THEN a
  ELSE LET shapeId == CHOOSE id \in a.sel : TRUE
           found == Selected(a.shapes, {shapeId})
       IN IF Len(found) > 0 /\ found[1].type = "circle"
          THEN LET shape == found[1]
                   r == Sqrt(Sq(shape.x2 - shape.x1) + Sq(shape.y2 - shape.y1))
                   newShape ==
                     [NewShape(a.nextId, "measure_radius", shape.x1 - r, shape.y1,
                               shape.x1 + r, shape.y1, "solid", "both", 1)
                        EXCEPT !.strokeColor = Some(strokeColor),
                               !.text = Some(ToFixed2(r * 2))]
               IN [saveHistory(a) EXCEPT !.shapes = Append(@, newShape),
                                         !.sel = {newShape.id},
                                         !.nextId = @ + 1]
          ELSE a

\* A nudge that moves the endpoints and nothing else.
NudgedEndpoints(s, dx, dy) ==
  [s EXCEPT !.x1 = @ + dx, !.y1 = @ + dy, !.x2 = @ + dx, !.y2 = @ + dy]

\* The shape handleNudge makes of a selected shape.
Nudged(s, dx, dy) ==
  [s EXCEPT !.x1 = @ + dx, !.y1 = @ + dy, !.x2 = @ + dx, !.y2 = @ + dy,
            !.cx1 = AddIfDefined(@, dx), !.cy1 = AddIfDefined(@, dy),
            !.cx2 = AddIfDefined(@, dx), !.cy2 = AddIfDefined(@, dy),
            !.textX = AddIfDefined(@, dx), !.textY = AddIfDefined(@, dy),
            !.points = MovePoints(@, dx, dy)]

handleNudge(a, dx, dy) ==
  IF a.sel = {} THEN a
  ELSE [saveHistory(a) EXCEPT
          !.shapes = [i \in 1..Len(a.shapes) |->
                        IF a.shapes[i].id \in a.sel
                        THEN Nudged(a.shapes[i], dx, dy) ELSE a.shapes[i]]]

\* { ...s, [key]: value } for the keys the property bar sets
WithProperty(s, key, value) ==
  CASE key = "style"       -> [s EXCEPT !.style = value]
    [] key = "arrow"       -> [s EXCEPT !.arrow = value]
    [] key = "lineWidth"   -> [s EXCEPT !.lineWidth = value]
    [] key = "fillColor"   -> [s EXCEPT !.fillColor = Some(value)]
    [] key = "strokeColor" -> [s EXCEPT !.strokeColor = Some(value)]
    [] OTHER               -> s

updateSelectedProperty(a, key, value) ==
  IF a.sel # {}
  THEN [saveHistory(a) EXCEPT
          !.shapes = [i \in 1..Len(a.shapes) |->
                        IF a.shapes[i].id \in a.sel
                        THEN WithProperty(a.shapes[i], key, value) ELSE a.shapes[i]]]
  ELSE a

handleTextChange(a, text) ==
  IF Cardinality(a.sel) = 1
  THEN [saveHistory(a) EXCEPT
          !.shapes = [i \in 1..Len(a.shapes) |->
                        IF a.shapes[i].id \in a.sel
                        THEN [a.shapes[i] EXCEPT !.text = Some(text)] ELSE a.shapes[i]]]
  ELSE a

\* setMode(m) from the toolbar, with the effect on [mode] (part_000 737-739)
SetModeOf(a, m) ==
  IF m # a.mode /\ m \notin {"pan", "circular_pattern", "mirror_axis"}
  THEN [a EXCEPT !.mode = m, !.sel = {}]
  ELSE [a EXCEPT !.mode = m]

\* const NUDGE_SMALL = 0.1, const NUDGE_LARGE = 1.0
NUDGE_SMALL == 100
NUDGE_LARGE == 1000

\* e.key.toLowerCase(), on the keys the handler compares
ToLowerCase(key) ==
  CASE key = "Z" -> "z" [] key = "Y" -> "y" [] key = "A" -> "a" [] OTHER -> key

\* The Escape branch of handleKeyDown (no radius dialog is open)
handleEscape(a) == [a EXCEPT !.mode = "pan", !.sel = {}]

\* The focus targets that are instances of HTMLInputElement: the text input
\* of the label ("input") and the checkboxes of the view options ("checkbox").
\* The prompt's "textarea" and the page "body" are not.
HTMLInputElement == {"input", "checkbox"}

\* handleKeyDown.  e.target is the element that has the focus; e.ctrl is
\* metaKey || ctrlKey.
handleKeyDown(a, e) ==
  IF e.target \in HTMLInputElement THEN a
  ELSE IF e.key = "Escape" THEN handleEscape(a)
  ELSE IF e.ctrl /\ ~e.shift /\ ToLowerCase(e.key) = "z" THEN handleUndo(a)
  ELSE IF (e.ctrl /\ ToLowerCase(e.key) = "y")
          \/ (e.ctrl /\ e.shift /\ ToLowerCase(e.key) = "z") THEN handleRedo(a)
  ELSE IF e.ctrl /\ ToLowerCase(e.key) = "a" THEN handleSelectAll(a)
  ELSE LET a1 == IF e.ctrl /\ e.key = "d" THEN handleDuplicate(a) ELSE a
           a2 == IF e.ctrl /\ e.key = "c" THEN handleCopy(a1) ELSE a1
           a3 == IF e.ctrl /\ e.key = "v" THEN handlePaste(a2) ELSE a2
           a4 == IF e.key \in {"Delete", "Backspace"} /\ a.sel # {}
                 THEN handleDelete(a3) ELSE a3
           step == IF e.shift THEN NUDGE_LARGE ELSE NUDGE_SMALL
       IN IF a.sel # {}
          THEN CASE e.key = "ArrowUp"    -> handleNudge(a4, 0, step)
                 [] e.key = "ArrowDown"  -> handleNudge(a4, 0, -step)
                 [] e.key = "ArrowLeft"  -> handleNudge(a4, -step, 0)
                 [] e.key = "ArrowRight" -> handleNudge(a4, step, 0)
                 [] OTHER                -> a4
          ELSE a4

-----------------------------------------------------------------------------
(* CartesianCanvas: the pointer handlers (HelpModal.tsx 682-887), each an   *)
(* operator from the current state to the state after the handler, as a    *)
(* record [app, cv].  hoveredShapeId, hoveredHandle and cursorPos only     *)
(* feed the rendering and are left out.                                    *)

Canvas ==
  [scale |-> scale, offset |-> offset, isDragging |-> isDragging,
   dragStart |-> dragStart, drawStart |-> drawStart, currentShape |-> currentShape,
   selectionBox |-> selectionBox, editHandle |-> editHandle,
   initialShapeState |-> initialShapeState]

World == [app |-> App, cv |-> Canvas]

\* A pointer event: the position in pixels from the viewport centre, the
\* button and the modifier keys.
MouseEvent(x, y, button, shiftKey, ctrlKey) ==
  [x |-> x, y |-> y, button |-> button, shiftKey |-> shiftKey, ctrlKey |-> ctrlKey]

\* The toolbar state a pointer-down reads: the line style, arrow style and
\* line width of new shapes, and the count of the circular pattern.
Toolbar(lineStyle, arrowStyle, lineWidth, circularCount) ==
  [lineStyle |-> lineStyle, arrowStyle |-> arrowStyle, lineWidth |-> lineWidth,
   circularCount |-> circularCount]

\* The id of currentShape ('temp')
TempId == 0

handleMouseDown(e, tb) ==
  LET g   == screenToGrid(e.x, e.y)
      sgx == snap(g.x)
      sgy == snap(g.y)
      hit == hitTest(e.x, e.y)
      newSel ==
        IF e.ctrlKey
        THEN IF hit.id \in selectedShapeIds
             THEN selectedShapeIds \ {hit.id} ELSE selectedShapeIds \cup {hit.id}
        ELSE IF hit.id \in selectedShapeIds THEN selectedShapeIds ELSE {hit.id}
      started == handleInteractionStart(App)
      rest ==
        IF mode = "pan" /\ e.shiftKey
        THEN [app |-> started,
              cv |-> [Canvas EXCEPT
                        !.drawStart = Some(Pt(e.x, e.y)),
                        !.selectionBox = Some([x1 |-> e.x, y1 |-> e.y,
                                               x2 |-> e.x, y2 |-> e.y])]]
        ELSE IF mode = "circular_pattern"
        THEN [app |-> handleCircularPatternCenterOf(started, App, sgx, sgy,
                                                    tb.circularCount),
              cv |-> Canvas]
        ELSE [app |-> started,
              cv |-> [Canvas EXCEPT
                        !.drawStart = Some(Pt(sgx, sgy)),
                        !.currentShape =
                          Some([NewShape(TempId, mode, sgx, sgy, sgx, sgy,
                                         tb.lineStyle, tb.arrowStyle, tb.lineWidth)
                                  EXCEPT !.points = IF mode = "freehand"
                                                    THEN Some(<<Pt(sgx, sgy)>>)
                                                    ELSE None])]]
  IN IF e.button = 1 \/ (mode = "pan" /\ ~e.shiftKey)
     THEN IF hit.id # 0
          THEN [app |-> handleSelectionChange(started, newSel),
                cv |-> [Canvas EXCEPT
                          !.initialShapeState = Some(Selected(shapes, newSel)),
                          !.editHandle = IF hit.handle = "null" THEN "move" ELSE hit.handle,
                          !.isDragging = TRUE,
                          !.dragStart = Pt(sgx, sgy)]]
          ELSE IF ~e.ctrlKey
          THEN [app |-> handleSelectionChange(App, {}),
                cv |-> [Canvas EXCEPT
                          !.isDragging = TRUE,
                          !.editHandle = "null",
                          !.dragStart = Pt(e.x - offset.x, e.y - offset.y)]]
          ELSE rest
     ELSE rest

\* `if (ns.cx1) ns.cx1 += dx` and the like: the shape the move handle makes of s
Moved(s, dx, dy) ==
  [s EXCEPT !.x1 = @ + dx, !.y1 = @ + dy, !.x2 = @ + dx, !.y2 = @ + dy,
            !.cx1 = AddIfTruthy(@, dx), !.cy1 = AddIfTruthy(@, dy),
            !.cx2 = AddIfTruthy(@, dx), !.cy2 = AddIfTruthy(@, dy),
            !.points = MovePoints(@, dx, dy),
            !.textX = AddIfTruthy(@, dx), !.textY = AddIfTruthy(@, dy)]

\* editHandle.includes(c) for the box handles
HandleIncludes(h, c) ==
  CASE c = "w" -> h \in {"nw", "sw", "w"}
    [] c = "e" -> h \in {"ne", "se", "e", "move", "end"}
    [] c = "n" -> h \in {"nw", "ne", "n", "end"}
    [] OTHER   -> h \in {"se", "sw", "s", "start"}

\* The shape a handle other than 'move' makes of s.  The branch of a box
\* shape tests 'n' twice (lines 797 and 811) and applies dy each time.
Resized(s, h, dx, dy) ==
  IF isBoxShape(s.type)
  THEN LET isX1Min == s.x1 <= s.x2
           isY1Min == s.y1 <= s.y2
           w == IF HandleIncludes(h, "w") THEN dx ELSE 0
           e == IF HandleIncludes(h, "e") THEN dx ELSE 0
           n == IF HandleIncludes(h, "n") THEN 2 * dy ELSE 0
           so == IF HandleIncludes(h, "s") THEN dy ELSE 0
       IN [s EXCEPT !.x1 = @ + (IF isX1Min THEN w ELSE e),
                    !.x2 = @ + (IF isX1Min THEN e ELSE w),
                    !.y1 = @ + (IF isY1Min THEN so ELSE n),
                    !.y2 = @ + (IF isY1Min THEN n ELSE so)]
  ELSE IF h = "start" THEN [s EXCEPT !.x1 = @ + dx, !.y1 = @ + dy]
  ELSE IF h = "end" THEN [s EXCEPT !.x2 = @ + dx, !.y2 = @ + dy]
  ELSE s

\* A drag step that applies the handle to twice the delta.
DragUpdateDoubled(init, h, dx, dy) ==
  [i \in 1..Len(init) |->
     IF h = "move" THEN Moved(init[i], 2 * dx, 2 * dy)
     ELSE Resized(init[i], h, 2 * dx, 2 * dy)]

\* The shapes a drag step hands to onShapesUpdate.
DragUpdate(init, h, dx, dy) ==
  [i \in 1..Len(init) |->
     IF h = "move" THEN Moved(init[i], dx, dy) ELSE Resized(init[i], h, dx, dy)]

handleMouseMove(e) ==
  LET g   == screenToGrid(e.x, e.y)
      sgx == snap(g.x)
      sgy == snap(g.y)
      dx  == sgx - dragStart.x
      dy  == sgy - dragStart.y
      cs  == currentShape[1]
      drawn == [cs EXCEPT !.x2 = sgx, !.y2 = sgy]
      free == IF mode = "freehand"
              THEN [drawn EXCEPT !.points = Some(OrElse(@, <<>>) \o <<Pt(g.x, g.y)>>)]
              ELSE drawn
      ns == IF mode = "bezier"
            THEN [free EXCEPT !.cx1 = Some(free.x1 + ((free.x2 - free.x1) * 33) \div 100),
                              !.cy1 = Some(free.y1),
                              !.cx2 = Some(free.x1 + ((free.x2 - free.x1) * 66) \div 100),
                              !.cy2 = Some(free.y2)]
            ELSE free
  IN IF isDragging
     THEN IF editHandle = "null"
          THEN [app |-> App,
                cv |-> [Canvas EXCEPT !.offset = Pt(e.x - dragStart.x, e.y - dragStart.y)]]
          ELSE IF initialShapeState # None
          THEN [app |-> handleShapesUpdate(App, DragUpdate(initialShapeState[1],
                                                            editHandle, dx, dy)),
                cv |-> Canvas]
          ELSE World
     ELSE IF selectionBox # None /\ drawStart # None
     THEN [app |-> App,
           cv |-> [Canvas EXCEPT
                     !.selectionBox = Some([x1 |-> Min2(drawStart[1].x, e.x),
                                            y1 |-> Min2(drawStart[1].y, e.y),
                                            x2 |-> Max2(drawStart[1].x, e.x),
                                            y2 |-> Max2(drawStart[1].y, e.y)])]]
     ELSE IF currentShape # None
     THEN [app |-> App, cv |-> [Canvas EXCEPT !.currentShape = Some(ns)]]
     ELSE World

\* An export list that is the whole collection.
exportShapesAll(ss) == ss

\* shapes.filter(s => !s.isGuide): what the serializers of the export dialog
\* read of the collection ss
exportShapes(ss) == SelectSeq(ss, LAMBDA s : ~s.isGuide)

\* A box selection that also picks the shapes whose box only touches the
\* selection box.
BoxSelectedClosed(ss, b) ==
  LET bx1 == 100 * Min2(b.x1, b.x2)
      bx2 == 100 * Max2(b.x1, b.x2)
      by1 == 100 * Min2(b.y1, b.y2)
      by2 == 100 * Max2(b.y1, b.y2)
      Intersects(sh) ==
        LET p1 == gridToScreen(sh.x1, sh.y1)
            p2 == gridToScreen(sh.x2, sh.y2)
        IN /\ Min2(p1.x, p2.x) <= bx2 /\ Max2(p1.x, p2.x) >= bx1
           /\ Min2(p1.y, p2.y) <= by2 /\ Max2(p1.y, p2.y) >= by1
  IN {ss[i].id : i \in {j \in 1..Len(ss) : ~ss[j].isGuide /\ Intersects(ss[j])}}

\* The ids the selection box b (pixels) picks: the shapes that are no guides
\* and whose projected bounding box meets the open box.
BoxSelected(ss, b) ==
  LET bx1 == 100 * Min2(b.x1, b.x2)
      bx2 == 100 * Max2(b.x1, b.x2)
      by1 == 100 * Min2(b.y1, b.y2)
      by2 == 100 * Max2(b.y1, b.y2)
      Intersects(sh) ==
        LET p1 == gridToScreen(sh.x1, sh.y1)
            p2 == gridToScreen(sh.x2, sh.y2)
        IN /\ Min2(p1.x, p2.x) < bx2 /\ Max2(p1.x, p2.x) > bx1
           /\ Min2(p1.y, p2.y) < by2 /\ Max2(p1.y, p2.y) > by1
  IN {ss[i].id : i \in {j \in 1..Len(ss) : ~ss[j].isGuide /\ Intersects(ss[j])}}

\* A pointer-up that ends a drag without setEditHandle(null).
handleMouseUpKeepingHandle ==
  LET cv1 == IF isDragging
             THEN [Canvas EXCEPT !.isDragging = FALSE, !.initialShapeState = None]
             ELSE Canvas
      a2  == IF selectionBox # None
             THEN handleSelectionChange(App, BoxSelected(shapes, selectionBox[1]))
             ELSE App
      cv2 == IF selectionBox # None
             THEN [cv1 EXCEPT !.selectionBox = None, !.drawStart = None]
             ELSE cv1
      cs  == currentShape[1]
      a3  == IF currentShape = None THEN a2
             ELSE IF mode = "mirror_axis"
             THEN performMirrorOf(a2, App, cs.x1, cs.y1, cs.x2, cs.y2)
             ELSE [handleShapeAdd(a2, [cs EXCEPT !.id = nextId]) EXCEPT !.nextId = @ + 1]
      cv3 == IF currentShape = None THEN cv2
             ELSE [cv2 EXCEPT !.currentShape = None, !.drawStart = None]
  IN [app |-> a3, cv |-> cv3]

\* handleMouseUp, also the handler of mouseleave
handleMouseUp ==
  LET cv1 == IF isDragging
             THEN [Canvas EXCEPT !.isDragging = FALSE, !.editHandle = "null",
                                 !.initialShapeState = None]
             ELSE Canvas
      a2  == IF selectionBox # None
             THEN handleSelectionChange(App, BoxSelected(shapes, selectionBox[1]))
             ELSE App
      cv2 == IF selectionBox # None
             THEN [cv1 EXCEPT !.selectionBox = None, !.drawStart = None]
             ELSE cv1
      cs  == currentShape[1]
      a3  == IF currentShape = None THEN a2
             ELSE IF mode = "mirror_axis"
             THEN performMirrorOf(a2, App, cs.x1, cs.y1, cs.x2, cs.y2)
             ELSE [handleShapeAdd(a2, [cs EXCEPT !.id = nextId]) EXCEPT !.nextId = @ + 1]
      cv3 == IF currentShape = None THEN cv2
             ELSE [cv2 EXCEPT !.currentShape = None, !.drawStart = None]
  IN [app |-> a3, cv |-> cv3]

-----------------------------------------------------------------------------
(* sendChatMessage (geminiService.ts 77-140) and cleanLatexCode (142-148).  *)
(* A text is a sequence of tokens: the code fence (FENCE, three backquotes), *)
(* the line break, the blank and a stretch of code.  An activation of sendChatMessage is a record of *)
(* its position, its locals and its outcome.                               *)

\* text with the prefix p removed, when text starts with p
StripPrefix(text, p) ==
  IF Len(text) >= Len(p) /\ SubSeq(text, 1, Len(p)) = p
  THEN SubSeq(text, Len(p) + 1, Len(text)) ELSE text

\* text with the suffix s removed, when text ends with s
StripSuffix(text, s) ==
  IF Len(text) >= Len(s) /\ SubSeq(text, Len(text) - Len(s) + 1, Len(text)) = s
  THEN SubSeq(text, 1, Len(text) - Len(s)) ELSE text

Whitespace == {" ", "\n"}

RECURSIVE Trim(_)
\* String.prototype.trim
Trim(text) ==
  IF text = <<>> THEN text
  ELSE IF text[1] \in Whitespace THEN Trim(Tail(text))
  ELSE IF text[Len(text)] \in Whitespace THEN Trim(SubSeq(text, 1, Len(text) - 1))
  ELSE text

\* The leading fence line (with or without the word latex), the trailing
\* fence line and the surrounding whitespace are removed: three replace
\* calls and trim.
cleanLatexCode(text) ==
  Trim(StripSuffix(StripPrefix(StripPrefix(text, <<"FENCE-latex", "\n">>), <<"FENCE", "\n">>),
                   <<"\n", "FENCE">>))

\* const MAX_RETRIES = 3
MAX_RETRIES == 3

\* The error sendChatMessage throws at an empty response.
EmptyResponse == "The model returned an empty response."

\* The messages of the errors chat.sendMessage rejects with.
ErrorMessages ==
  {"429 Too Many Requests", "Quota exceeded", "Resource exhausted",
   "{\"error\":{\"code\":8,\"status\":\"RESOURCE_EXHAUSTED\"}}",
   "Blocked by SAFETY settings", "fetch failed"}

\* lowerMsg.includes("429") || lowerMsg.includes("quota") ||
\* lowerMsg.includes("resource exhausted"), or the JSON error format with
\* code 429 or status RESOURCE_EXHAUSTED
IsRateLimit(msg) ==
  msg \in {"429 Too Many Requests", "Quota exceeded", "Resource exhausted",
           "{\"error\":{\"code\":8,\"status\":\"RESOURCE_EXHAUSTED\"}}"}

\* lowerMsg.includes("safety") || lowerMsg.includes("blocked")
IsSafety(msg) == msg = "Blocked by SAFETY settings"

\* No activation.
IdleCall ==
  [pc |-> "idle", parts |-> <<>>, retryCount |-> 0, sends |-> 0,
   error |-> None, value |-> None]

\* sendChatMessage(chat, text, inlineData) up to its first await: the parts
\* are built and chat.sendMessage is called.
sendChatMessage(text, inlineData) ==
  [pc |-> "send",
   parts |-> (IF inlineData # None THEN <<inlineData[1]>> ELSE <<>>) \o <<text>>,
   retryCount |-> 0, sends |-> 1, error |-> None, value |-> None]

\* The catch block: a retry after a rate-limit error while retries are left,
\* otherwise the error thrown to the caller.
catchError(c, msg) ==
  IF IsRateLimit(msg) /\ c.retryCount < MAX_RETRIES
  THEN [c EXCEPT !.pc = "wait", !.retryCount = @ + 1, !.error = Some(msg)]
  ELSE IF IsSafety(msg)
  THEN [c EXCEPT !.pc = "thrown", !.error = Some(msg),
                 !.value = Some("Generation blocked by safety filters.")]
  ELSE [c EXCEPT !.pc = "thrown", !.error = Some(msg),
                 !.value = Some(<<"Generation failed: ", msg>>)]

\* chat.sendMessage resolves with response.text = responseText (the empty
\* text also standing for undefined).
onResponse(c, responseText) ==
  IF responseText = <<>> THEN catchError(c, EmptyResponse)
  ELSE [c EXCEPT !.pc = "returned", !.value = Some(cleanLatexCode(responseText))]

\* chat.sendMessage rejects with an error of message msg.
onReject(c, msg) == catchError(c, msg)

\* wait(delayTime) resolves: the loop continues with the next sendMessage.
onWake(c) == [c EXCEPT !.pc = "send", !.sends = @ + 1]

-----------------------------------------------------------------------------
(* TikzExportModal: the generation state (HelpModal.tsx 961-985, 1277-1309) *)

\* The export dialog is closed and nothing is in flight.
ExportClosed ==
  /\ isExportModalOpen = FALSE
  /\ aiCode = None
  /\ isGenerating = FALSE
  /\ pending = <<>>
  /\ call = IdleCall

-----------------------------------------------------------------------------
(* The interaction machine: the state after construction and one action    *)
(* per event.                                                              *)

\* The pan offset stays between 0 and MaxPan pixels on each axis.
MaxPan == 30

\* Pointer positions, pixels from the viewport centre: the grid points
\* (0,0) and (1,0) at the initial scale and offset.
Positions == {Pt(0, 0), Pt(30, 0)}
\* The button and modifier keys of a pointer-down: <<button, shiftKey, ctrlKey>>
Presses == {<<0, FALSE, FALSE>>, <<0, TRUE, FALSE>>, <<0, FALSE, TRUE>>, <<1, FALSE, FALSE>>}
\* The toolbar settings new shapes are drawn with, and the circular count.
Toolbars == {Toolbar("solid", "none", 2, 2)}
\* The modes the toolbar buttons set.
ToolModes == {"pan", "line", "circular_pattern"}
\* Escape, with the focus on the page
Escape == [key |-> "Escape", ctrl |-> FALSE, shift |-> FALSE, target |-> "body"]

KeyEvent(key, ctrl, shift, target) ==
  [key |-> key, ctrl |-> ctrl, shift |-> shift, target |-> target]

KeyEvents ==
  {KeyEvent("Escape", FALSE, FALSE, "body"),
   KeyEvent("z", TRUE, FALSE, "body"),
   KeyEvent("y", TRUE, FALSE, "body"),
   KeyEvent("Z", TRUE, TRUE, "body"),
   KeyEvent("a", TRUE, FALSE, "body"),
   KeyEvent("Delete", FALSE, FALSE, "body"),
   KeyEvent("Delete", FALSE, FALSE, "input"),
   KeyEvent("Delete", FALSE, FALSE, "textarea"),
   KeyEvent("Escape", FALSE, FALSE, "checkbox")}

CoordsOf(s) ==
  {s.x1, s.y1, s.x2, s.y2}
    \cup {o[1] : o \in {s.cx1, s.cy1, s.cx2, s.cy2, s.textX, s.textY} \ {None}}

\* The states the model explores: the stacks, the ids and the coordinates
\* within the bounds.
Bounded(w) ==
  /\ Len(w.app.history) <= MaxHist
  /\ w.app.nextId <= MaxId + 1
  /\ \A i \in 1..Len(w.app.shapes) :
       \A v \in CoordsOf(w.app.shapes[i]) : Abs(v) <= MaxCoord
  /\ w.cv.offset.x \in 0..MaxPan /\ w.cv.offset.y \in 0..MaxPan

SetWorld(w) ==
  /\ Bounded(w)
  /\ shapes' = w.app.shapes
  /\ history' = w.app.history
  /\ future' = w.app.future
  /\ selectedShapeIds' = w.app.sel
  /\ mode' = w.app.mode
  /\ clipboard' = w.app.clipboard
  /\ nextId' = w.app.nextId
  /\ scale' = w.cv.scale
  /\ offset' = w.cv.offset
  /\ isDragging' = w.cv.isDragging
  /\ dragStart' = w.cv.dragStart
  /\ drawStart' = w.cv.drawStart
  /\ currentShape' = w.cv.currentShape
  /\ selectionBox' = w.cv.selectionBox
  /\ editHandle' = w.cv.editHandle
  /\ initialShapeState' = w.cv.initialShapeState
  /\ UNCHANGED <<isSnapEnabled, exportVars>>

SetApp(a) == SetWorld([app |-> a, cv |-> Canvas])

\* No gesture is in progress on the canvas.  The pointer reaches the toolbar
\* only by leaving the canvas, and mouseleave ends every gesture.
NoGesture == ~isDragging /\ currentShape = None /\ selectionBox = None

Init ==
  /\ shapes = <<>>
  /\ history = <<>>
  /\ future = <<>>
  /\ selectedShapeIds = {}
  /\ mode = "pan"
  /\ clipboard = None
  /\ isSnapEnabled = TRUE
  /\ nextId = 1
  /\ scale = 30
  /\ offset = Pt(0, 0)
  /\ isDragging = FALSE
  /\ dragStart = Pt(0, 0)
  /\ drawStart = None
  /\ currentShape = None
  /\ selectionBox = None
  /\ editHandle = "null"
  /\ initialShapeState = None
  /\ ExportClosed

\* One button is held at a time: a button goes down when no gesture is in
\* progress.
MouseDown ==
  /\ NoGesture
  /\ \E p \in Positions, m \in Presses, tb \in Toolbars :
       SetWorld(handleMouseDown(MouseEvent(p.x, p.y, m[1], m[2], m[3]), tb))

MouseMove ==
  \E p \in Positions : SetWorld(handleMouseMove(MouseEvent(p.x, p.y, 0, FALSE, FALSE)))

MouseUp == SetWorld(handleMouseUp)

KeyDown == \E e \in KeyEvents : SetApp(handleKeyDown(App, e))

SetMode ==
  \E m \in ToolModes :
    /\ NoGesture
    /\ m = "circular_pattern" => selectedShapeIds # {}
    /\ SetApp(SetModeOf(App, m))

MirrorTool == NoGesture /\ selectedShapeIds # {} /\ SetApp(handleMirrorTool(App))

UndoButton == NoGesture /\ Len(history) > 0 /\ SetApp(handleUndo(App))

RedoButton == NoGesture /\ Len(future) > 0 /\ SetApp(handleRedo(App))

Next ==
  \/ MouseDown
  \/ MouseMove
  \/ MouseUp
  \/ KeyDown
  \/ SetMode
  \/ MirrorTool
  \/ UndoButton
  \/ RedoButton

Spec == Init /\ [][Next]_vars

-----------------------------------------------------------------------------
(* The transform operations on drawn collections: the machine started in   *)
(* states the drawing of two shapes leads to, with the toolbar operations  *)
(* and their parameters.                                                   *)

\* The id generator hands out at most MaxOpsId ids.
MaxOpsId == 6
\* The undo stack holds at most MaxOpsHist snapshots.
MaxOpsHist == 6
\* No coordinate of a stored shape leaves [-MaxOpsCoord, MaxOpsCoord].
MaxOpsCoord == 4000

\* What the pointer handlers make of a drawing gesture from (x1, y1) to
\* (x2, y2) in the given mode with the toolbar's initial styles: the committed
\* shape (handleMouseDown 740-745, handleMouseMove 832-839, handleMouseUp 883).
Drawn(id, type, x1, y1, x2, y2) ==
  LET base == NewShape(id, type, x1, y1, x2, y2, "solid", "none", 2)
  IN CASE type = "bezier" ->
            [base EXCEPT !.cx1 = Some(x1 + ((x2 - x1) * 33) \div 100), !.cy1 = Some(y1),
                         !.cx2 = Some(x1 + ((x2 - x1) * 66) \div 100), !.cy2 = Some(y2)]
       [] type = "freehand" ->
            [base EXCEPT !.points = Some(<<Pt(x1, y1), Pt(x2, y1), Pt(x2, y2)>>)]
       [] OTHER -> base

\* Collections of two drawn shapes.
Samples ==
  {<<Drawn(1, "rect", 0, 0, 2000, 1000), Drawn(2, "bezier", 0, 0, 1000, 1000)>>,
   <<Drawn(1, "circle", 0, 0, 1000, 0), Drawn(2, "freehand", 0, 0, 1000, 1000)>>,
   <<Drawn(1, "line", 0, 0, 1000, 0), Drawn(2, "ellipse", 0, 0, 2000, 1000)>>}

\* The undo stack after the shapes of ss were drawn one after the other:
\* pointer-down and the commit each push the collection before the shape.
DrawnHistory(ss) == [k \in 1..(2 * Len(ss)) |-> SubSeq(ss, 1, (k - 1) \div 2)]

\* The state after the two shapes were drawn, pan mode was chosen, Ctrl+A
\* selected both (and, for the selection {1}, an undo and a redo pruned the
\* selection to the first shape) and Ctrl+C copied the selection.
InitOps ==
  /\ shapes \in Samples
  /\ history = DrawnHistory(shapes)
  /\ future = <<>>
  /\ selectedShapeIds \in {{1}, {1, 2}}
  /\ mode = "pan"
  /\ clipboard = Some(Selected(shapes, selectedShapeIds))
  /\ isSnapEnabled = TRUE
  /\ nextId = 3
  /\ scale = 30
  /\ offset = Pt(0, 0)
  /\ isDragging = FALSE
  /\ dragStart = Pt(0, 0)
  /\ drawStart = None
  /\ currentShape = None
  /\ selectionBox = None
  /\ editHandle = "null"
  /\ initialShapeState = None
  /\ ExportClosed

BoundedOps(w) ==
  /\ Len(w.app.history) <= MaxOpsHist
  \* the drawing of the sample is not undone (Spec undoes down to the empty drawing)
  /\ \A ss \in Samples : Len(w.app.history) >= Len(DrawnHistory(ss))
  /\ w.app.nextId <= MaxOpsId + 1
  /\ \A i \in 1..Len(w.app.shapes) :
       \A v \in CoordsOf(w.app.shapes[i]) : Abs(v) <= MaxOpsCoord
  /\ w.cv.offset = Pt(0, 0)

SetWorldOps(w) ==
  /\ BoundedOps(w)
  /\ shapes' = w.app.shapes
  /\ history' = w.app.history
  /\ future' = w.app.future
  /\ selectedShapeIds' = w.app.sel
  /\ mode' = w.app.mode
  /\ clipboard' = w.app.clipboard
  /\ nextId' = w.app.nextId
  /\ scale' = w.cv.scale
  /\ offset' = w.cv.offset
  /\ isDragging' = w.cv.isDragging
  /\ dragStart' = w.cv.dragStart
  /\ drawStart' = w.cv.drawStart
  /\ currentShape' = w.cv.currentShape
  /\ selectionBox' = w.cv.selectionBox
  /\ editHandle' = w.cv.editHandle
  /\ initialShapeState' = w.cv.initialShapeState
  /\ UNCHANGED <<isSnapEnabled, exportVars>>

SetAppOps(a) == SetWorldOps([app |-> a, cv |-> Canvas])

\* The pointer goes down at the grid point (-1,-1) and moves to (0,-1), away
\* from the handles of the samples: the pivot of the circular pattern and the
\* axis of the mirror. The left button only.
OpsDownPositions == {Pt(-30, 30)}
OpsMovePositions == {Pt(0, 30)}
OpsPresses == {<<0, FALSE, FALSE>>}
\* The counts of the circular pattern: none, a half turn, quarter turns.
CircularCounts == {1, 2, 4}
OpsToolbars == {Toolbar("solid", "none", 2, n) : n \in CircularCounts}

PatternDirections == {"horizontal", "horizontal_neg", "vertical", "vertical_neg"}
PatternCounts == {1, 3}
PatternSpacings == {500}
OffsetDistances == {500}

OpsKeyEvents ==
  {KeyEvent("Escape", FALSE, FALSE, "body"),
   KeyEvent("z", TRUE, FALSE, "body"),
   KeyEvent("y", TRUE, FALSE, "body"),
   KeyEvent("d", TRUE, FALSE, "body"),
   KeyEvent("v", TRUE, FALSE, "body"),
   KeyEvent("Delete", FALSE, FALSE, "body"),
   KeyEvent("ArrowUp", FALSE, FALSE, "body")}

\* The pointer is used in the modes of the pivot click and of the mirror axis.
OpsMouseDown ==
  /\ NoGesture
  /\ mode # "pan"
  /\ \E p \in OpsDownPositions, m \in OpsPresses, tb \in OpsToolbars :
       SetWorldOps(handleMouseDown(MouseEvent(p.x, p.y, m[1], m[2], m[3]), tb))

OpsMouseMove ==
  \E p \in OpsMovePositions : SetWorldOps(handleMouseMove(MouseEvent(p.x, p.y, 0, FALSE, FALSE)))

OpsMouseUp == SetWorldOps(handleMouseUp)

OpsKeyDown == \E e \in OpsKeyEvents : SetAppOps(handleKeyDown(App, e))

OpsSetMode ==
  \E m \in {"pan", "circular_pattern"} :
    /\ NoGesture
    /\ m = "circular_pattern" => selectedShapeIds # {}
    /\ SetAppOps(SetModeOf(App, m))

OpsMirrorTool == NoGesture /\ selectedShapeIds # {} /\ SetAppOps(handleMirrorTool(App))

\* The toolbar buttons of the operations call their handlers; the handlers
\* return at once when nothing is selected.
LinearPattern ==
  /\ NoGesture
  /\ \E dir \in PatternDirections, n \in PatternCounts, sp \in PatternSpacings :
       SetAppOps(handleLinearPattern(App, dir, n, sp))

Offset == NoGesture /\ \E d \in OffsetDistances : SetAppOps(handleOffset(App, d))

AddDiameter == NoGesture /\ SetAppOps(handleAddDiameter(App, "#facc15"))

NextOps ==
  \/ OpsMouseDown
  \/ OpsMouseMove
  \/ OpsMouseUp
  \/ OpsKeyDown
  \/ OpsSetMode
  \/ OpsMirrorTool
  \/ LinearPattern
  \/ Offset
  \/ AddDiameter

SpecOps == InitOps /\ [][NextOps]_vars

-----------------------------------------------------------------------------
(* Steps of the interaction machine, told apart by what they do. *)

\* An undo or a redo
UndoRedoStep == App' = handleUndo(App) \/ App' = handleRedo(App)

\* A step of an edit drag: a pointer move that hands shapes to onShapesUpdate
EditDragStep ==
  /\ isDragging /\ editHandle # "null" /\ initialShapeState # None
  /\ \E p \in Positions : World' = handleMouseMove(MouseEvent(p.x, p.y, 0, FALSE, FALSE))

\* A step that changes the collection and is neither an undo nor a redo
MutatingStep == shapes' # shapes /\ ~UndoRedoStep

\* The collection before the operation a mutating step belongs to: for a step
\* of an edit drag the collection with the dragged shapes as they were at
\* pointer-down, for every other step the collection before the step.
PreOperation ==
  IF EditDragStep THEN UpdatedBy(shapes, initialShapeState[1]) ELSE shapes

\* Escape pressed, with the focus outside a text input
EscapeStep == App' = handleKeyDown(App, Escape) /\ UNCHANGED canvasVars

\* C1: an undo invoked right after an operation that changes the collection
\* makes the collection equal to the collection before the operation, and a
\* redo invoked right after that undo makes it equal to the collection after
\* the operation.
C1_UndoRestoresRedoReapplies ==
  [][MutatingStep =>
       /\ handleUndo(App').shapes = PreOperation
       /\ handleRedo(handleUndo(App')).shapes = shapes']_vars

\* C2: every action that changes the collection leaves the collection of
\* before the action on top of the undo stack and the redo stack empty, so
\* that a redo after it is a no-op.
C2_MutationPushesAndClearsRedo ==
  [][MutatingStep =>
       /\ Len(history') > 0
       /\ Last(history') = PreOperation
       /\ future' = <<>>
       /\ handleRedo(App') = App']_vars

\* C4: every shape of the collection has a type of the variant set; no shape
\* whose type is a tool mode (pan, circular_pattern, mirror_axis) is committed.
C4_TypesInVariantSet ==
  \A i \in 1..Len(shapes) : shapes[i].type \in ShapeTypes

\* C6: when Escape is pressed while a shape is being drawn, the following
\* pointer-up (or pointer-leave) adds no shape to the collection and performs
\* no mirror operation: it leaves the collection as it is.
C6_EscapeDiscardsDrawing ==
  [][(currentShape # None /\ EscapeStep) => handleMouseUp'.app.shapes = shapes']_vars

\* The elements that can have the focus when a key is pressed, and the text
\* fields among them.
FocusTargets == {"body", "input", "checkbox", "textarea"}
TextFields == {"input", "textarea"}

\* C7: whenever Escape is pressed with the focus outside a text field, the
\* mode is pan and the selection is empty right after it, whatever the mode,
\* the selection and the gesture in progress were.
C7_EscapeResets ==
  \A target \in FocusTargets \ TextFields :
    LET after == handleKeyDown(App, [Escape EXCEPT !.target = target])
    IN after.mode = "pan" /\ after.sel = {}

\* C3: in every reachable state the selection is a subset of the ids of the
\* shapes of the collection, also right after an undo, a redo or a delete,
\* and also when these happen while a pointer gesture is in progress.
C3_SelectionWithinIds == selectedShapeIds \subseteq Ids(shapes)

\* C3 witness: a shape is being dragged (pointer down on it, not yet released)
\* and the collection holds no shape any more: an undo or a delete took the
\* dragged shape away in the middle of the gesture, and nothing is selected.
C3_Witness ==
  /\ isDragging /\ editHandle # "null" /\ initialShapeState # None
  /\ shapes = <<>> /\ selectedShapeIds = {}

\* C5: no two shapes of the collection share an id; so whatever an operation
\* appends to the collection has an id no shape of the collection had.
C5_IdsUnique ==
  \A i, j \in 1..Len(shapes) : i # j => shapes[i].id # shapes[j].id

\* C5 witness: the same clipboard pasted twice: the collection ends with two
\* shapes that differ in nothing but their ids.
C5_Witness ==
  /\ Len(shapes) >= 4
  /\ shapes[Len(shapes)].id # shapes[Len(shapes) - 1].id
  /\ shapes[Len(shapes)] = [shapes[Len(shapes) - 1] EXCEPT !.id = shapes[Len(shapes)].id]

\* C8: while nothing is selected, each transform operation (duplicate, linear
\* pattern, offset, nudge, delete, the pivot click of the circular pattern,
\* drawing the mirror axis) leaves the collection, the undo stack and the
\* redo stack as they are.
C8_EmptySelectionNoOp ==
  selectedShapeIds = {} =>
    LET Same(a) == a.shapes = shapes /\ a.history = history /\ a.future = future
        Click(p, tb) == handleMouseDown(MouseEvent(p.x, p.y, 0, FALSE, FALSE), tb)
    IN /\ Same(handleDuplicate(App))
       /\ \A dir \in PatternDirections, n \in PatternCounts, sp \in PatternSpacings :
            Same(handleLinearPattern(App, dir, n, sp))
       /\ \A d \in OffsetDistances : Same(handleOffset(App, d))
       /\ \A key \in {"ArrowUp", "ArrowDown", "ArrowLeft", "ArrowRight", "Delete"},
             shift \in BOOLEAN :
            Same(handleKeyDown(App, KeyEvent(key, FALSE, shift, "body")))
       /\ (mode = "circular_pattern" /\ NoGesture)
            => \A p \in OpsDownPositions, tb \in OpsToolbars : Same(Click(p, tb).app)
       /\ (mode = "mirror_axis" /\ NoGesture)
            => \A p \in OpsDownPositions, tb \in OpsToolbars : Same(Click(p, tb).app)
       /\ (mode = "mirror_axis" /\ currentShape # None) => Same(handleMouseUp.app)

\* The unit vector of a pattern direction.
UnitX(dir) == CASE dir = "horizontal" -> 1 [] dir = "horizontal_neg" -> -1 [] OTHER -> 0
UnitY(dir) == CASE dir = "vertical" -> 1 [] dir = "vertical_neg" -> -1 [] OTHER -> 0

\* The optional coordinate c is the optional coordinate o moved by d.
ShiftedOpt(o, c, d) == IF o = None THEN c = None ELSE c = Some(o[1] + d)

\* copy is src with every coordinate field it has translated by (ox, oy).
TranslatedBy(src, copy, ox, oy) ==
  /\ copy.type = src.type
  /\ copy.x1 = src.x1 + ox /\ copy.y1 = src.y1 + oy
  /\ copy.x2 = src.x2 + ox /\ copy.y2 = src.y2 + oy
  /\ ShiftedOpt(src.cx1, copy.cx1, ox) /\ ShiftedOpt(src.cy1, copy.cy1, oy)
  /\ ShiftedOpt(src.cx2, copy.cx2, ox) /\ ShiftedOpt(src.cy2, copy.cy2, oy)
  /\ ShiftedOpt(src.textX, copy.textX, ox) /\ ShiftedOpt(src.textY, copy.textY, oy)
  /\ IF src.points = None THEN copy.points = None
     ELSE /\ copy.points # None
          /\ Len(copy.points[1]) = Len(src.points[1])
          /\ \A j \in 1..Len(src.points[1]) :
               copy.points[1][j] = Pt(src.points[1][j].x + ox, src.points[1][j].y + oy)

\* C9: a linear pattern with count n >= 2, spacing sp and a direction, applied
\* to a non-empty selection S, appends n - 1 shapes per shape of S, the i-th
\* copy of a shape being the shape with its endpoints, control points, label
\* anchor and points translated by i * sp along the direction; the shapes
\* that were there are unchanged and the selection becomes S with the copies.
C9_LinearPatternCopies ==
  [][\A dir \in PatternDirections, n \in PatternCounts, sp \in PatternSpacings :
       (selectedShapeIds # {} /\ n >= 2 /\ App' = handleLinearPattern(App, dir, n, sp))
       => LET S == Selected(shapes, selectedShapeIds)
              base == Len(shapes)
          IN /\ Len(shapes') = base + Len(S) * (n - 1)
             /\ SubSeq(shapes', 1, base) = shapes
             /\ \A j \in 1..Len(S), i \in 1..(n - 1) :
                  TranslatedBy(S[j], shapes'[base + (j - 1) * (n - 1) + i],
                               i * sp * UnitX(dir), i * sp * UnitY(dir))
             /\ selectedShapeIds' =
                  selectedShapeIds \cup {shapes'[k].id : k \in (base + 1)..Len(shapes')}]_vars

\* C9 witness: the pattern of count 3 applied to the circle and the stroke:
\* six shapes, all selected, the last one the stroke a whole grid unit to the
\* right with all its points.
C9_Witness ==
  /\ Len(shapes) = 6 /\ selectedShapeIds = Ids(shapes)
  /\ shapes[2].type = "freehand" /\ shapes[2].points = Some(<<Pt(0, 0), Pt(1000, 0), Pt(1000, 1000)>>)
  /\ shapes[6].type = "freehand"
  /\ shapes[6].points = Some(<<Pt(1000, 0), Pt(2000, 0), Pt(2000, 1000)>>)

\* The point p turned about the point c by q quarter turns, counter-clockwise.
TurnedAbout(p, c, q) ==
  CASE q % 4 = 0 -> p
    [] q % 4 = 1 -> Pt(c.x - (p.y - c.y), c.y + (p.x - c.x))
    [] q % 4 = 2 -> Pt((2 * c.x) - p.x, (2 * c.y) - p.y)
    [] OTHER     -> Pt(c.x + (p.y - c.y), c.y - (p.x - c.x))

\* copy is src at the angle of q quarter turns about the pivot: the centre of
\* a shape held by its centre, the middle of a box, and the endpoints, the
\* control points and the points of every other shape are turned about it.
TurnedCopy(src, copy, pivot, q) ==
  /\ copy.type = src.type
  /\ CASE src.type \in {"circle", "ellipse", "arc", "text"} ->
            Pt(copy.x1, copy.y1) = TurnedAbout(Pt(src.x1, src.y1), pivot, q)
       [] src.type \in {"rect", "round_rect"} ->
            Pt(copy.x1 + copy.x2, copy.y1 + copy.y2)
              = TurnedAbout(Pt(src.x1 + src.x2, src.y1 + src.y2),
                            Pt(2 * pivot.x, 2 * pivot.y), q)
       [] OTHER ->
            /\ Pt(copy.x1, copy.y1) = TurnedAbout(Pt(src.x1, src.y1), pivot, q)
            /\ Pt(copy.x2, copy.y2) = TurnedAbout(Pt(src.x2, src.y2), pivot, q)
            /\ (src.cx1 # None /\ src.cy1 # None) =>
                 /\ copy.cx1 # None /\ copy.cy1 # None
                 /\ Pt(copy.cx1[1], copy.cy1[1])
                      = TurnedAbout(Pt(src.cx1[1], src.cy1[1]), pivot, q)
            /\ (src.cx2 # None /\ src.cy2 # None) =>
                 /\ copy.cx2 # None /\ copy.cy2 # None
                 /\ Pt(copy.cx2[1], copy.cy2[1])
                      = TurnedAbout(Pt(src.cx2[1], src.cy2[1]), pivot, q)
            /\ src.points # None =>
                 /\ copy.points # None
                 /\ Len(copy.points[1]) = Len(src.points[1])
                 /\ \A j \in 1..Len(src.points[1]) :
                      copy.points[1][j] = TurnedAbout(src.points[1][j], pivot, q)

\* C10: with a non-empty selection S and a count n >= 2, a pivot click in
\* circular_pattern mode appends |S| * (n - 1) copies and one guide circle
\* (isGuide set, centred at the pivot); each shape of S has a copy at each of
\* the angles i * (full turn / n), i = 1..n-1; afterwards the selection is S
\* with the copies and without the guide, and the mode is pan.
C10_CircularPatternCopies ==
  [][\A p \in OpsDownPositions, tb \in OpsToolbars :
       (/\ mode = "circular_pattern" /\ NoGesture
        /\ selectedShapeIds # {} /\ tb.circularCount >= 2
        /\ World' = handleMouseDown(MouseEvent(p.x, p.y, 0, FALSE, FALSE), tb))
       => LET S == Selected(shapes, selectedShapeIds)
              n == tb.circularCount
              base == Len(shapes)
              pivot == Pt(snap(screenToGrid(p.x, p.y).x), snap(screenToGrid(p.x, p.y).y))
              new == (base + 1)..Len(shapes')
          IN /\ Len(shapes') = base + (Len(S) * (n - 1)) + 1
             /\ SubSeq(shapes', 1, base) = shapes
             /\ \E g \in new :
                  /\ shapes'[g].isGuide /\ shapes'[g].type = "circle"
                  /\ shapes'[g].x1 = pivot.x /\ shapes'[g].y1 = pivot.y
                  /\ selectedShapeIds' =
                       selectedShapeIds \cup {shapes'[k].id : k \in new \ {g}}
                  /\ shapes'[g].id \notin selectedShapeIds'
                  /\ \A j \in 1..Len(S), i \in 1..(n - 1) :
                       \E k \in new \ {g} :
                         TurnedCopy(S[j], shapes'[k], pivot, (4 * i) \div n)
             /\ mode' = "pan"]_vars

\* C10 witness: the pattern of count 4 about the pivot (-1,-1) applied to the
\* first shape of two: a guide circle centred at the pivot and three copies
\* follow the two shapes; the first shape and the copies are selected, the
\* guide is not, and the mode is pan.
C10_Witness ==
  /\ Len(shapes) = 6 /\ mode = "pan"
  /\ shapes[3].isGuide /\ shapes[3].x1 = -1000 /\ shapes[3].y1 = -1000
  /\ ~shapes[4].isGuide /\ ~shapes[5].isGuide /\ ~shapes[6].isGuide
  /\ selectedShapeIds = {shapes[1].id, shapes[4].id, shapes[5].id, shapes[6].id}

-----------------------------------------------------------------------------
(* The geometry of picking and of the transform operations: the machine    *)
(* started in states the drawing of two shapes leads to, with the pointer  *)
(* used to pick, to box-select, to click a pivot and to draw a mirror      *)
(* axis, and with the offset button.                                       *)

\* The id generator hands out at most MaxGeomId ids.
MaxGeomId == 6
\* The undo stack holds at most MaxGeomHist snapshots.
MaxGeomHist == 8
\* No coordinate of a stored shape leaves [-MaxGeomCoord, MaxGeomCoord].
MaxGeomCoord == 7000

\* Collections of two drawn shapes: a box and a shape held by its centre,
\* the rect once drawn from its top right corner to its bottom left one, and
\* a curve with a stroke.
GeomSamples ==
  {<<Drawn(1, "rect", -1000, -1000, 1000, 1000), Drawn(2, "circle", 0, 0, 1000, 0)>>,
   <<Drawn(1, "rect", 2000, 1000, 0, 0), Drawn(2, "text", 0, 0, 1000, 0)>>,
   <<Drawn(1, "round_rect", 0, 0, 2000, 1000), Drawn(2, "arc", 0, 0, 1000, 0)>>,
   <<Drawn(1, "ellipse", 0, 0, 2000, 1000), Drawn(2, "line", 0, 0, 1000, 0)>>,
   <<Drawn(1, "bezier", 0, 0, 1000, 1000), Drawn(2, "freehand", 0, 0, 1000, 1000)>>}

\* The state after the two shapes were drawn, pan mode was chosen and a
\* click selected one of them or Ctrl+A selected both.
InitGeom ==
  /\ shapes \in GeomSamples
  /\ history = DrawnHistory(shapes)
  /\ future = <<>>
  /\ selectedShapeIds \in {{1}, {2}, {1, 2}}
  /\ mode = "pan"
  /\ clipboard = None
  /\ isSnapEnabled = TRUE
  /\ nextId = 3
  /\ scale = 30
  /\ offset = Pt(0, 0)
  /\ isDragging = FALSE
  /\ dragStart = Pt(0, 0)
  /\ drawStart = None
  /\ currentShape = None
  /\ selectionBox = None
  /\ editHandle = "null"
  /\ initialShapeState = None
  /\ ExportClosed

BoundedGeom(w) ==
  /\ Len(w.app.history) <= MaxGeomHist
  /\ w.app.nextId <= MaxGeomId + 1
  /\ \A i \in 1..Len(w.app.shapes) :
       \A v \in CoordsOf(w.app.shapes[i]) : Abs(v) <= MaxGeomCoord
  /\ w.cv.offset = Pt(0, 0)

SetWorldGeom(w) ==
  /\ BoundedGeom(w)
  /\ shapes' = w.app.shapes
  /\ history' = w.app.history
  /\ future' = w.app.future
  /\ selectedShapeIds' = w.app.sel
  /\ mode' = w.app.mode
  /\ clipboard' = w.app.clipboard
  /\ nextId' = w.app.nextId
  /\ scale' = w.cv.scale
  /\ offset' = w.cv.offset
  /\ isDragging' = w.cv.isDragging
  /\ dragStart' = w.cv.dragStart
  /\ drawStart' = w.cv.drawStart
  /\ currentShape' = w.cv.currentShape
  /\ selectionBox' = w.cv.selectionBox
  /\ editHandle' = w.cv.editHandle
  /\ initialShapeState' = w.cv.initialShapeState
  /\ UNCHANGED <<isSnapEnabled, exportVars>>

SetAppGeom(a) == SetWorldGeom([app |-> a, cv |-> Canvas])

\* The pointer goes down at the grid points (-1,0) and (3,0) and moves to
\* (1,2) and (-1,0): the axes drawn are the diagonal y = x + 1, the
\* anti-diagonal y = 3 - x and the horizontal line y = 0.
GeomDownPositions == {Pt(-30, 0), Pt(90, 0)}
GeomMovePositions == {Pt(30, -60), Pt(-30, 0)}
\* The left button, alone or with Shift (the box-select modifier).
GeomPresses == {<<0, FALSE, FALSE>>, <<0, TRUE, FALSE>>}
\* The counts of the circular pattern: a half turn, quarter turns.
GeomCounts == {2, 4}
GeomToolbars == {Toolbar("solid", "none", 2, n) : n \in GeomCounts}
\* The distances of the offset: half a grid unit and a whole one.
GeomDistances == {500, 1000}

GeomMouseDown ==
  /\ NoGesture
  /\ \E p \in GeomDownPositions, m \in GeomPresses, tb \in GeomToolbars :
       SetWorldGeom(handleMouseDown(MouseEvent(p.x, p.y, m[1], m[2], m[3]), tb))

\* The pointer moves while an axis is drawn or a selection box is dragged; a
\* click that picks a shape or clears the selection is released in place.
GeomMouseMove ==
  /\ currentShape # None \/ selectionBox # None
  /\ \E p \in GeomMovePositions :
       SetWorldGeom(handleMouseMove(MouseEvent(p.x, p.y, 0, FALSE, FALSE)))

GeomMouseUp == SetWorldGeom(handleMouseUp)

GeomSetMode ==
  \E m \in {"pan", "circular_pattern"} :
    /\ NoGesture
    /\ m = "circular_pattern" => selectedShapeIds # {}
    /\ SetAppGeom(SetModeOf(App, m))

GeomMirrorTool == NoGesture /\ selectedShapeIds # {} /\ SetAppGeom(handleMirrorTool(App))

GeomOffset ==
  /\ NoGesture /\ selectedShapeIds # {}
  /\ \E d \in GeomDistances : SetAppGeom(handleOffset(App, d))

NextGeom ==
  \/ GeomMouseDown
  \/ GeomMouseMove
  \/ GeomMouseUp
  \/ GeomSetMode
  \/ GeomMirrorTool
  \/ GeomOffset

SpecGeom == InitGeom /\ [][NextGeom]_vars

-----------------------------------------------------------------------------
(* Claims about the geometry of the transform operations and of picking. *)

\* The shapes held by a centre or a bounding box.
BoxBasedTypes == {"rect", "round_rect", "circle", "ellipse", "arc", "text"}

\* Twice the centre of a box-based shape: the middle of a rect or round_rect,
\* the first anchor point of the others.
Centre2(s) ==
  IF s.type \in {"rect", "round_rect"} THEN Pt(s.x1 + s.x2, s.y1 + s.y2)
  ELSE Pt(2 * s.x1, 2 * s.y1)

\* C11: in a circular pattern of count n, the i-th copy of a box-based shape
\* has the centre of the source turned about the pivot by i * (full turn / n),
\* the x2 - x1 and y2 - y1 of the source, and the rotation of the source plus
\* i * (full turn / n).
C11_BoxBasedCopies ==
  [][\A p \in GeomDownPositions, tb \in GeomToolbars :
       (/\ mode = "circular_pattern" /\ NoGesture
        /\ selectedShapeIds # {} /\ tb.circularCount >= 2
        /\ World' = handleMouseDown(MouseEvent(p.x, p.y, 0, FALSE, FALSE), tb))
       => LET S == Selected(shapes, selectedShapeIds)
              n == tb.circularCount
              base == Len(shapes)
              pivot == Pt(snap(screenToGrid(p.x, p.y).x), snap(screenToGrid(p.x, p.y).y))
          IN \A j \in 1..Len(S), i \in 1..(n - 1) :
               S[j].type \in BoxBasedTypes =>
                 LET copy == shapes'[base + 1 + (j - 1) * (n - 1) + i]
                 IN /\ Centre2(copy) = TurnedAbout(Centre2(S[j]),
                                                   Pt(2 * pivot.x, 2 * pivot.y), (4 * i) \div n)
                    /\ copy.x2 - copy.x1 = S[j].x2 - S[j].x1
                    /\ copy.y2 - copy.y1 = S[j].y2 - S[j].y1
                    /\ copy.rotation = Some(OrElse(S[j].rotation, 0) + (8 * i) \div n)]_vars

\* C11 witness: the rect (-1,-1)-(1,1) and its three copies of the pattern of
\* count 4 about the pivot (3,0): the first copy is the rect (2,-4)-(4,-2)
\* with the rotation of a quarter turn.
C11_Witness ==
  /\ Len(shapes) = 6
  /\ shapes[1].type = "rect" /\ shapes[1].x1 = -1000 /\ shapes[1].x2 = 1000
  /\ shapes[3].isGuide /\ shapes[3].x1 = 3000 /\ shapes[3].y1 = 0
  /\ shapes[4].type = "rect"
  /\ shapes[4].x1 = 2000 /\ shapes[4].y1 = -4000 /\ shapes[4].x2 = 4000 /\ shapes[4].y2 = -2000
  /\ shapes[4].rotation = Some(2)

\* The square of the radius of a circle: of the distance of its two anchors.
Radius2(s) == Sq(s.x2 - s.x1) + Sq(s.y2 - s.y1)

\* The inset of s by d has a strictly positive size.
InsetPositive(s, d) ==
  CASE s.type \in {"rect", "round_rect"} ->
         Abs(s.x2 - s.x1) - 2 * d > 0 /\ Abs(s.y2 - s.y1) - 2 * d > 0
    [] s.type = "circle" -> d < 0 \/ Sq(d) < Radius2(s)
    [] s.type = "ellipse" -> Abs(s.x2 - s.x1) - d > 0 /\ Abs(s.y2 - s.y1) - d > 0
    [] OTHER -> FALSE

\* copy is the inset of src by d: same type and centre, each edge of a rect
\* moved inwards by d, the radius or the radii d shorter, and nothing of it
\* of size zero or less.
InsetOf(src, copy, d) ==
  /\ copy.type = src.type
  /\ CASE src.type \in {"rect", "round_rect"} ->
            /\ copy.x1 + copy.x2 = src.x1 + src.x2
            /\ copy.y1 + copy.y2 = src.y1 + src.y2
            /\ Abs(copy.x2 - copy.x1) = Abs(src.x2 - src.x1) - 2 * d
            /\ Abs(copy.y2 - copy.y1) = Abs(src.y2 - src.y1) - 2 * d
            /\ Abs(copy.x2 - copy.x1) > 0 /\ Abs(copy.y2 - copy.y1) > 0
       [] src.type = "circle" ->
            /\ copy.x1 = src.x1 /\ copy.y1 = src.y1
            /\ Radius2(copy) = Sq(Sqrt(Radius2(src)) - d)
            /\ Radius2(copy) > 0
       [] OTHER ->
            /\ copy.x1 = src.x1 /\ copy.y1 = src.y1
            /\ Abs(copy.x2 - copy.x1) = Abs(src.x2 - src.x1) - d
            /\ Abs(copy.y2 - copy.y1) = Abs(src.y2 - src.y1) - d
            /\ Abs(copy.x2 - copy.x1) > 0 /\ Abs(copy.y2 - copy.y1) > 0

\* C12: offset by d appends one shape for each selected rect, round_rect,
\* circle or ellipse whose inset size is strictly positive, and nothing for
\* every other selected shape; no appended shape has a width, a height or a
\* radius of zero or less.
C12_OffsetSkipsNonPositive ==
  [][\A d \in GeomDistances :
       (selectedShapeIds # {} /\ NoGesture /\ App' = handleOffset(App, d))
       => LET S == Selected(shapes, selectedShapeIds)
              Fits(s) == InsetPositive(s, d)
              src == SelectSeq(S, Fits)
              base == Len(shapes)
          IN /\ Len(shapes') = base + Len(src)
             /\ SubSeq(shapes', 1, base) = shapes
             /\ \A k \in 1..Len(src) : InsetOf(src[k], shapes'[base + k], d)]_vars

\* C12 witness: the circle of radius 1 about the origin offset by 0.5: one
\* circle of radius 0.5 about the origin follows, and it is the selection.
C12_Witness ==
  /\ Len(shapes) = 3
  /\ shapes[2].type = "circle" /\ shapes[2].x1 = 0 /\ shapes[2].y1 = 0
  /\ shapes[2].x2 = 1000 /\ shapes[2].y2 = 0
  /\ shapes[3].type = "circle" /\ shapes[3].x1 = 0 /\ shapes[3].y1 = 0
  /\ shapes[3].x2 = 500 /\ shapes[3].y2 = 0
  /\ selectedShapeIds = {shapes[3].id}

\* C13: when offset is invoked on a non-empty selection of which every shape
\* is skipped, the undo stack, the redo stack, the collection and the
\* selection are after the call what they were before it.
C13_SkippedOffsetLeavesNoFrame ==
  \A d \in GeomDistances :
    LET S == Selected(shapes, selectedShapeIds)
        after == handleOffset(App, d)
    IN (selectedShapeIds # {} /\ \A k \in 1..Len(S) : ~InsetPositive(S[k], d))
       => /\ after.history = history /\ after.future = future
          /\ after.shapes = shapes /\ after.sel = selectedShapeIds

\* A pointer-up that completes a mirror axis while shapes are selected.
MirrorStep ==
  /\ mode = "mirror_axis" /\ currentShape # None /\ selectedShapeIds # {}
  /\ World' = handleMouseUp

\* C14: completing a mirror axis with a non-empty selection S appends one
\* shape with a fresh id per shape of S, leaves every shape that was there
\* unchanged, makes the ids of the new shapes the selection and sets the mode
\* to pan.
C14_MirrorAppendsCopies ==
  [][MirrorStep =>
       LET S == Selected(shapes, selectedShapeIds)
           base == Len(shapes)
           new == (base + 1)..Len(shapes')
       IN /\ Len(shapes') = base + Len(S)
          /\ SubSeq(shapes', 1, base) = shapes
          /\ \A k \in 1..Len(S) : shapes'[base + k].type = S[k].type
          /\ \A k \in new : shapes'[k].id \notin Ids(shapes)
          /\ \A k, l \in new : k # l => shapes'[k].id # shapes'[l].id
          /\ selectedShapeIds' = {shapes'[k].id : k \in new}
          /\ mode' = "pan"]_vars

\* C14 witness: the rect and the text mirrored: their two copies follow them,
\* the copies are the selection and the mode is pan.
C14_Witness ==
  /\ Len(shapes) = 4 /\ mode = "pan"
  /\ shapes[1].type = "rect" /\ shapes[2].type = "text"
  /\ shapes[3].type = "rect" /\ shapes[4].type = "text"
  /\ shapes[3].rotation # None
  /\ selectedShapeIds = {shapes[3].id, shapes[4].id}
  /\ shapes[3].id \notin {shapes[1].id, shapes[2].id}

\* The snapped grid point under a pointer position.
GridOf(p) == Pt(snap(screenToGrid(p.x, p.y).x), snap(screenToGrid(p.x, p.y).y))

\* The mirror lines with two distinct endpoints that the pointer draws.
MirrorLines ==
  {[x1 |-> GridOf(pq[1]).x, y1 |-> GridOf(pq[1]).y,
    x2 |-> GridOf(pq[2]).x, y2 |-> GridOf(pq[2]).y] :
     pq \in {d \in GeomDownPositions \X GeomMovePositions : GridOf(d[1]) # GridOf(d[2])}}

\* The zero-length lines of a click without a drag.
ZeroLines ==
  {[x1 |-> GridOf(p).x, y1 |-> GridOf(p).y, x2 |-> GridOf(p).x, y2 |-> GridOf(p).y] :
     p \in GeomDownPositions}

\* s and t have the same coordinates: anchor points, control points, label
\* anchor and point list.
SameCoordinates(s, t) ==
  /\ t.x1 = s.x1 /\ t.y1 = s.y1 /\ t.x2 = s.x2 /\ t.y2 = s.y2
  /\ t.cx1 = s.cx1 /\ t.cy1 = s.cy1 /\ t.cx2 = s.cx2 /\ t.cy2 = s.cy2
  /\ t.textX = s.textX /\ t.textY = s.textY
  /\ t.points = s.points

\* C15: for a mirror line with two distinct endpoints and any shape s,
\* mirroring s and then mirroring the copy across the same line gives a shape
\* whose anchor points, control points, point list, rotation and, for an arc,
\* start and end angle are those of s.
C15_ReflectionInvolution ==
  \A l \in MirrorLines, k \in 1..Len(shapes) :
    LET s == shapes[k]
        t == MirrorCopy(MirrorCopy(s, TempId, l), TempId, l)
    IN /\ SameCoordinates(s, t)
       /\ OrElse(t.rotation, 0) = OrElse(s.rotation, 0)
       /\ s.type = "arc" =>
            /\ OrElse(t.startAngle, 0) = OrElse(s.startAngle, 0)
            /\ OrElse(t.endAngle, 0) = OrElse(s.endAngle, 0)

\* C16: mirroring across a zero-length line leaves every coordinate of the
\* copy equal to the corresponding coordinate of its source.
C16_ZeroLengthLeavesCoordinates ==
  \A l \in ZeroLines, k \in 1..Len(shapes) :
    SameCoordinates(shapes[k], MirrorCopy(shapes[k], TempId, l))

\* Pointer positions, in pixels from the centre of the viewport: on and
\* about the shapes of the samples.
HitPositions ==
  {Pt(x, 0) : x \in {-60, -30, 0, 30, 37, 38, 90}} \cup {Pt(-30, 30), Pt(30, -30)}

\* The shapes of the collection whose body is under the pointer position p,
\* by their place in the collection; guides are left out.
BodiesUnder(p) ==
  {i \in 1..Len(shapes) : ~shapes[i].isGuide /\ bodyHit(shapes[i], Pt(100 * p.x, 100 * p.y))}

CircleRadiusPx(s) ==
  LET p1 == gridToScreen(s.x1, s.y1)
      p2 == gridToScreen(s.x2, s.y2)
  IN (Abs(p2.x - p1.x) + Abs(p2.y - p1.y)) \div 100

ExactCircle(s) ==
  LET p1 == gridToScreen(s.x1, s.y1)
      p2 == gridToScreen(s.x2, s.y2)
  IN /\ s.type = "circle" /\ ~s.isGuide
     /\ (s.fillColor = None \/ s.fillColor = Some("none"))
     /\ (p1.x = p2.x \/ p1.y = p2.y)
     /\ p1.x % 100 = 0 /\ p1.y % 100 = 0
     /\ (Abs(p2.x - p1.x) + Abs(p2.y - p1.y)) % 100 = 0
     /\ CircleRadiusPx(s) <= 90

RimHit(s, k) ==
  LET p1 == gridToScreen(s.x1, s.y1)
  IN hitTestIn(<<s>>, {}, p1.x \div 100 + CircleRadiusPx(s) + k, p1.y \div 100).id = s.id

C18_RimToleranceIsHit ==
  \A i \in 1..Len(shapes) :
    ExactCircle(shapes[i]) =>
      /\ RimHit(shapes[i], THRESHOLD)
      /\ ~RimHit(shapes[i], THRESHOLD + 1)

\* C19: with exactly one shape selected and the pointer nearer than THRESHOLD
\* to one of its handles, hitTest returns that shape and the name of such a
\* handle, whatever bodies lie under the pointer; with no shape or several
\* shapes selected hitTest returns no handle.
NearHandleNames(s, p) ==
  LET hs == getResizeHandles(s)
  IN {hs[i].type : i \in {j \in 1..Len(hs) :
                            handleNear(Pt(100 * p.x, 100 * p.y), hs[j], 100 * THRESHOLD)}}

C19_HandleBeforeBody ==
  \A p \in HitPositions :
    LET r == hitTest(p.x, p.y)
    IN /\ Cardinality(selectedShapeIds) # 1 => r.handle = "null"
       /\ \A i \in 1..Len(shapes) :
            (selectedShapeIds = {shapes[i].id} /\ NearHandleNames(shapes[i], p) # {}) =>
              /\ r.id = shapes[i].id
              /\ r.handle \in NearHandleNames(shapes[i], p)

\* A press on the left-middle handle of the selected rect, at a point that is
\* also on the rim of the circle drawn after it, has started a resize.
C19_Witness ==
  /\ Len(shapes) >= 2
  /\ shapes[1].type = "rect" /\ shapes[2].type = "circle"
  /\ selectedShapeIds = {shapes[1].id}
  /\ 2 \in BodiesUnder(Pt(-30, 0))
  /\ "w" \in NearHandleNames(shapes[1], Pt(-30, 0))
  /\ isDragging /\ editHandle = "w"

\* C20: ending a box selection selects exactly the shapes that are no guides
\* and whose anchor box overlaps the selection box in the open-interval sense
\* on both axes; a box that only touches is not selected.  At 30 pixels per
\* unit the boxes A = (0,0,30,30), B = (60,60,90,90), C = (300,300,330,330) and
\* a guide over A, with the selection box (0,0,105,105), select exactly {A, B}.
OpenOverlap(s, b) ==
  LET p1 == gridToScreen(s.x1, s.y1)
      p2 == gridToScreen(s.x2, s.y2)
  IN /\ Min2(p1.x, p2.x) < 100 * Max2(b.x1, b.x2)
     /\ Max2(p1.x, p2.x) > 100 * Min2(b.x1, b.x2)
     /\ Min2(p1.y, p2.y) < 100 * Max2(b.y1, b.y2)
     /\ Max2(p1.y, p2.y) > 100 * Min2(b.y1, b.y2)

BoxExample ==
  LET A == Drawn(1, "rect", 0, 0, 1000, -1000)
      B == Drawn(2, "rect", 2000, -2000, 3000, -3000)
      C == Drawn(3, "rect", 10000, -10000, 11000, -11000)
      G == [Drawn(4, "circle", 0, 0, 1000, -1000) EXCEPT !.isGuide = TRUE]
  IN BoxSelected(<<A, B, C, G>>, [x1 |-> 0, y1 |-> 0, x2 |-> 105, y2 |-> 105]) = {1, 2}

C20_BoxSelectOpenOverlap ==
  [][/\ (selectionBox # None /\ World' = handleMouseUp) =>
          selectedShapeIds' =
            {shapes[i].id : i \in {j \in 1..Len(shapes) :
                                     /\ ~shapes[j].isGuide
                                     /\ OpenOverlap(shapes[j], selectionBox[1])}}
     /\ BoxExample]_vars

\* After a circular pattern of the rect (which selects the rect and its copy)
\* a selection box from (-30,0) to (30,-60) has selected the rect alone: the
\* anchor box of the circle only touches the selection box.
C20_Witness ==
  /\ Len(shapes) = 4
  /\ shapes[1].type = "rect" /\ shapes[2].type = "circle"
  /\ shapes[3].isGuide
  /\ selectedShapeIds = {shapes[1].id}
  /\ selectionBox = None /\ mode = "pan" /\ ~isDragging

-----------------------------------------------------------------------------
(* Edit drags: the machine started in pan mode on two drawn shapes, with   *)
(* presses on their handles and bodies, pointer moves during the drag and  *)
(* the snap button.                                                        *)

\* A press is made while the undo stack holds fewer than MaxDragHist
\* snapshots: two gestures after the drawing of the two shapes.
MaxDragHist == 6

\* Collections of two drawn shapes whose handles lie at the grid points
\* (0,1), (1,0) and (-1,-1): a rect in either corner order with a bezier
\* (whose second control point has cy2 = 0) or a freehand stroke, and a
\* circle with a text placed by a drag.
DragSamples ==
  {<<Drawn(1, "rect", -1000, -1000, 1000, 1000), Drawn(2, "bezier", 0, 1000, 1000, 0)>>,
   <<Drawn(1, "rect", 1000, 1000, -1000, -1000), Drawn(2, "freehand", 0, 1000, 1000, 0)>>,
   <<Drawn(1, "circle", 0, 0, 1000, 0), Drawn(2, "text", 0, 1000, 1000, 0)>>}

\* The state after the two shapes were drawn and pan mode was chosen, with
\* any selection a click, Ctrl+A or Escape leaves.
InitDrag ==
  /\ shapes \in DragSamples
  /\ history = DrawnHistory(shapes)
  /\ future = <<>>
  /\ selectedShapeIds \in SUBSET {1, 2}
  /\ mode = "pan"
  /\ clipboard = None
  /\ isSnapEnabled = TRUE
  /\ nextId = 3
  /\ scale = 30
  /\ offset = Pt(0, 0)
  /\ isDragging = FALSE
  /\ dragStart = Pt(0, 0)
  /\ drawStart = None
  /\ currentShape = None
  /\ selectionBox = None
  /\ editHandle = "null"
  /\ initialShapeState = None
  /\ ExportClosed

\* The pointer goes down at the grid points (0,1), (1,0) and (-1,-1) and
\* moves to these, to (1,2) and to (1.1,0.1), a point off the half-unit grid.
DragDownPositions == {Pt(0, -30), Pt(30, 0), Pt(-30, 30)}
DragMovePositions == {Pt(0, -30), Pt(30, 0), Pt(30, -60), Pt(33, -3)}

DragMouseDown ==
  /\ NoGesture
  /\ Len(history) < MaxDragHist
  /\ \E p \in DragDownPositions :
       SetWorldGeom(handleMouseDown(MouseEvent(p.x, p.y, 0, FALSE, FALSE),
                                    Toolbar("solid", "none", 2, 2)))

DragMouseMove ==
  \E p \in DragMovePositions :
    SetWorldGeom(handleMouseMove(MouseEvent(p.x, p.y, 0, FALSE, FALSE)))

\* The snap button: setIsSnapEnabled(!isSnapEnabled)
ToggleSnap ==
  /\ NoGesture
  /\ isSnapEnabled' = ~isSnapEnabled
  /\ UNCHANGED <<shapes, history, future, selectedShapeIds, mode, clipboard, nextId,
                 scale, offset, isDragging, dragStart, drawStart, currentShape,
                 selectionBox, editHandle, initialShapeState, exportVars>>

NextDrag ==
  \/ DragMouseDown
  \/ DragMouseMove
  \/ GeomMouseUp
  \/ ToggleSnap

SpecDrag == InitDrag /\ [][NextDrag]_vars

\* C21: with snapping enabled snap(v) is a multiple of half a grid unit and
\* snap(snap(v)) = snap(v), with snapping disabled snap(v) = v, for every
\* grid value v of SnapValues (thousandths of a unit, ties included).
SnapValues == -800..800

C21_SnapIdempotent ==
  \A v \in SnapValues :
    IF isSnapEnabled
    THEN snap(v) % 500 = 0 /\ snap(snap(v)) = snap(v)
    ELSE snap(v) = v

\* With snapping disabled a drag has left a shape off the half-unit grid,
\* and with snapping enabled again the pointer-down has snapped its anchor.
C21_Witness ==
  /\ isSnapEnabled
  /\ isDragging /\ editHandle # "null"
  /\ dragStart.x % 500 = 0 /\ dragStart.y % 500 = 0
  /\ \E i \in 1..Len(shapes) : shapes[i].x2 % 500 # 0

\* C22: a key pressed while the focus is in a text field (a single-line
\* input or the textarea of the export dialog) changes neither the shapes,
\* nor the selection, nor the undo and redo stacks, nor the mode.
TextFieldKeys ==
  {KeyEvent(k[1], k[2], k[3], target) :
     k \in {<<"Backspace", FALSE, FALSE>>, <<"Delete", FALSE, FALSE>>,
            <<"Escape", FALSE, FALSE>>, <<"a", FALSE, FALSE>>,
            <<"ArrowLeft", FALSE, FALSE>>, <<"z", TRUE, FALSE>>,
            <<"v", TRUE, FALSE>>},
     target \in TextFields}

C22_TextFieldKeysIgnored ==
  \A e \in TextFieldKeys :
    LET after == handleKeyDown(App, e)
    IN /\ after.shapes = shapes
       /\ after.sel = selectedShapeIds
       /\ after.history = history
       /\ after.future = future
       /\ after.mode = mode

\* C23: duplicate (of the selection) and paste (of the clipboard) append one
\* copy per source shape, each with x1, x2, cx1, cx2 and the x of its points
\* increased by 2 and y1, y2, cy1, cy2 and the y of its points decreased by 2
\* wherever the source has the field, and select exactly the copies.
OffsetBy2(src, copy) ==
  /\ copy.type = src.type
  /\ copy.x1 = src.x1 + DUP_OFFSET /\ copy.y1 = src.y1 - DUP_OFFSET
  /\ copy.x2 = src.x2 + DUP_OFFSET /\ copy.y2 = src.y2 - DUP_OFFSET
  /\ ShiftedOpt(src.cx1, copy.cx1, DUP_OFFSET) /\ ShiftedOpt(src.cy1, copy.cy1, -DUP_OFFSET)
  /\ ShiftedOpt(src.cx2, copy.cx2, DUP_OFFSET) /\ ShiftedOpt(src.cy2, copy.cy2, -DUP_OFFSET)
  /\ IF src.points = None THEN copy.points = None
     ELSE /\ copy.points # None
          /\ Len(copy.points[1]) = Len(src.points[1])
          /\ \A j \in 1..Len(src.points[1]) :
               copy.points[1][j] = Pt(src.points[1][j].x + DUP_OFFSET,
                                      src.points[1][j].y - DUP_OFFSET)

CopiesAppended(after, src) ==
  /\ Len(after.shapes) = Len(shapes) + Len(src)
  /\ SubSeq(after.shapes, 1, Len(shapes)) = shapes
  /\ \A j \in 1..Len(src) : OffsetBy2(src[j], after.shapes[Len(shapes) + j])
  /\ after.sel = {after.shapes[Len(shapes) + j].id : j \in 1..Len(src)}

C23_DuplicatePasteOffsetAllFields ==
  /\ selectedShapeIds # {} =>
       CopiesAppended(handleDuplicate(App), Selected(shapes, selectedShapeIds))
  /\ (clipboard # None /\ Len(clipboard[1]) > 0) =>
       CopiesAppended(handlePaste(App), clipboard[1])

\* C24: an arrow key pressed with a non-empty selection (focus on the page)
\* pushes exactly one snapshot on the undo stack, translates the endpoints,
\* control points, label anchor and points of every selected shape by the
\* step (a tenth of a unit, a whole unit with Shift) in the direction of the
\* arrow, and leaves the other shapes and the selection as they were.
ArrowKeys == {"ArrowUp", "ArrowDown", "ArrowLeft", "ArrowRight"}

ArrowDx(key, step) ==
  CASE key = "ArrowLeft" -> -step [] key = "ArrowRight" -> step [] OTHER -> 0

ArrowDy(key, step) ==
  CASE key = "ArrowDown" -> -step [] key = "ArrowUp" -> step [] OTHER -> 0

C24_NudgeTranslatesSelection ==
  selectedShapeIds # {} =>
    \A key \in ArrowKeys, shift \in BOOLEAN :
      LET after == handleKeyDown(App, KeyEvent(key, FALSE, shift, "body"))
          step  == IF shift THEN 1000 ELSE 100
      IN /\ after.history = Append(history, shapes)
         /\ after.sel = selectedShapeIds
         /\ Len(after.shapes) = Len(shapes)
         /\ \A i \in 1..Len(shapes) :
              IF shapes[i].id \in selectedShapeIds
              THEN /\ after.shapes[i].id = shapes[i].id
                   /\ TranslatedBy(shapes[i], after.shapes[i],
                                   ArrowDx(key, step), ArrowDy(key, step))
              ELSE after.shapes[i] = shapes[i]

\* ArrowUp has nudged the selected copies of a circle and a freehand stroke:
\* the endpoints and the points of the copies are a tenth of a unit higher,
\* the unselected originals are where they were.
C24_Witness ==
  /\ Len(shapes) = 4
  /\ shapes[2].type = "freehand" /\ shapes[4].type = "freehand"
  /\ selectedShapeIds = {shapes[3].id, shapes[4].id}
  /\ shapes[4].y1 = shapes[2].y1 - DUP_OFFSET + NUDGE_SMALL
  /\ shapes[4].points[1][1].y = shapes[2].points[1][1].y - DUP_OFFSET + NUDGE_SMALL
  /\ shapes[3].y1 = shapes[1].y1 - DUP_OFFSET + NUDGE_SMALL
  /\ shapes[2].y1 = 0 /\ shapes[1].y1 = 0
  /\ Last(history)[4].y1 = shapes[2].y1 - DUP_OFFSET

\* C25: the list the export reads holds no shape with isGuide set and holds
\* every shape of the collection without it, in every reachable state and
\* also after the guide circle itself was selected (Ctrl+A) and copied by
\* duplicate or by copy and paste: the copy of a guide is a guide.
GuideIndices(ss) == {i \in 1..Len(ss) : ss[i].isGuide}

ExportsAllButGuides(ss) ==
  LET ex == exportShapes(ss)
  IN /\ \A j \in 1..Len(ex) : ~ex[j].isGuide
     /\ \A i \in 1..Len(ss) : ~ss[i].isGuide => \E j \in 1..Len(ex) : ex[j] = ss[i]
     /\ Len(ex) = Len(ss) - Cardinality(GuideIndices(ss))

C25_ExportHasNoGuides ==
  /\ ExportsAllButGuides(shapes)
  /\ \A after \in {handleDuplicate(handleSelectAll(App)),
                   handlePaste(handleCopy(handleSelectAll(App)))} :
       /\ ExportsAllButGuides(after.shapes)
       /\ Len(after.shapes) = 2 * Len(shapes)
       /\ Len(exportShapes(after.shapes)) = 2 * Len(exportShapes(shapes))

\* A circular pattern has put its guide circle between the drawn shapes and
\* the copies: the export holds all shapes but the guide.
C25_Witness ==
  /\ Len(shapes) >= 4
  /\ GuideIndices(shapes) = {3}
  /\ shapes[3].type = "circle"
  /\ Len(exportShapes(shapes)) = Len(shapes) - 1
  /\ exportShapes(shapes)[3] = shapes[4]

\* C26: a pointer-move of a move drag puts every dragged shape at its
\* start-of-drag snapshot translated by the total grid delta on every
\* coordinate field it has (endpoints, control points, label anchor, points),
\* which is also what a nudge by that delta makes of the snapshot.
DragDelta(p) == Pt(GridOf(p).x - dragStart.x, GridOf(p).y - dragStart.y)

MoveDragStep(p) ==
  /\ isDragging /\ editHandle = "move" /\ initialShapeState # None
  /\ World' = handleMouseMove(MouseEvent(p.x, p.y, 0, FALSE, FALSE))

C26_MoveTranslatesAllFields ==
  [][\A p \in DragMovePositions :
       MoveDragStep(p) =>
         \A j \in 1..Len(initialShapeState[1]), i \in 1..Len(shapes) :
           shapes[i].id = initialShapeState[1][j].id =>
             /\ TranslatedBy(initialShapeState[1][j], shapes'[i],
                             DragDelta(p).x, DragDelta(p).y)
             /\ shapes'[i] = Nudged(initialShapeState[1][j],
                                    DragDelta(p).x, DragDelta(p).y)]_vars

\* C27: a pointer-move of a drag of a box handle of a box-based shape puts
\* each bounding edge the handle names at its start-of-drag value plus the
\* total grid delta (w: the smaller x by dx, e: the larger x by dx, n: the
\* larger y by dy, s: the smaller y by dy, whichever of x1/x2, y1/y2 held it
\* at the start) and leaves the other edges as they were.
BoxHandles == {"nw", "n", "ne", "e", "se", "s", "sw", "w"}

Names(h, c) ==
  CASE c = "w" -> h \in {"nw", "w", "sw"}
    [] c = "e" -> h \in {"ne", "e", "se"}
    [] c = "n" -> h \in {"nw", "n", "ne"}
    [] OTHER   -> h \in {"sw", "s", "se"}

EdgesDisplaced(s, t, h, dx, dy) ==
  /\ (IF s.x1 <= s.x2 THEN t.x1 ELSE t.x2) = Min2(s.x1, s.x2) + (IF Names(h, "w") THEN dx ELSE 0)
  /\ (IF s.x1 <= s.x2 THEN t.x2 ELSE t.x1) = Max2(s.x1, s.x2) + (IF Names(h, "e") THEN dx ELSE 0)
  /\ (IF s.y1 <= s.y2 THEN t.y1 ELSE t.y2) = Min2(s.y1, s.y2) + (IF Names(h, "s") THEN dy ELSE 0)
  /\ (IF s.y1 <= s.y2 THEN t.y2 ELSE t.y1) = Max2(s.y1, s.y2) + (IF Names(h, "n") THEN dy ELSE 0)

BoxDragStep(p) ==
  /\ isDragging /\ editHandle \in BoxHandles /\ initialShapeState # None
  /\ World' = handleMouseMove(MouseEvent(p.x, p.y, 0, FALSE, FALSE))

C27_BoxHandleMovesNamedEdges ==
  [][\A p \in DragMovePositions :
       BoxDragStep(p) =>
         \A j \in 1..Len(initialShapeState[1]), i \in 1..Len(shapes) :
           (shapes[i].id = initialShapeState[1][j].id
              /\ isBoxShape(initialShapeState[1][j].type)) =>
             EdgesDisplaced(initialShapeState[1][j], shapes'[i], editHandle,
                            DragDelta(p).x, DragDelta(p).y)]_vars

\* C28: a pointer-move of an edit drag leaves the snapshot, the anchor and
\* the handle of the drag as they are and puts every dragged shape at its
\* snapshot with the handle's rule applied once to the total delta of the
\* pointer position, whatever the moves before it did; the other shapes are
\* unchanged, the same position delivered again changes nothing, and a
\* position with total delta (0,0) gives back the snapshot.
HandleRule(s, h, dx, dy) == IF h = "move" THEN Moved(s, dx, dy) ELSE Resized(s, h, dx, dy)

EditMoveStep(p) ==
  /\ isDragging /\ editHandle # "null" /\ initialShapeState # None
  /\ World' = handleMouseMove(MouseEvent(p.x, p.y, 0, FALSE, FALSE))

C28_DragDependsOnLastPosition ==
  [][\A p \in DragMovePositions :
       EditMoveStep(p) =>
         /\ initialShapeState' = initialShapeState
         /\ dragStart' = dragStart /\ editHandle' = editHandle /\ isDragging'
         /\ Len(shapes') = Len(shapes)
         /\ \A i \in 1..Len(shapes) :
              LET js == {j \in 1..Len(initialShapeState[1]) :
                           initialShapeState[1][j].id = shapes[i].id}
              IN IF js = {} THEN shapes'[i] = shapes[i]
                 ELSE \A j \in js :
                        /\ shapes'[i] = HandleRule(initialShapeState[1][j], editHandle,
                                                   DragDelta(p).x, DragDelta(p).y)
                        /\ DragDelta(p) = Pt(0, 0) => shapes'[i] = initialShapeState[1][j]
         /\ handleMouseMove(MouseEvent(p.x, p.y, 0, FALSE, FALSE))' = World']_vars

\* In the second gesture, with snapping disabled, an end handle has been
\* dragged a tenth of a unit to the right of the anchor of the drag: the end
\* point is off the half-unit grid and the start point is where it was.
C28_Witness ==
  /\ isDragging /\ editHandle = "end" /\ initialShapeState # None
  /\ Len(history) = MaxDragHist
  /\ Len(initialShapeState[1]) = 1
  /\ \E i \in 1..Len(shapes) :
       /\ shapes[i].id = initialShapeState[1][1].id
       /\ shapes[i].x1 = initialShapeState[1][1].x1
       /\ shapes[i].x2 = initialShapeState[1][1].x2 + 100
       /\ shapes[i].y2 # initialShapeState[1][1].y2

\* C29: the state after a pointer-up or a pointer-leave (the same handler)
\* has no gesture, whatever the state before: not dragging, no edit handle,
\* no drag snapshot, no selection box and no shape being drawn; and in a
\* state without gesture a pointer-move changes neither the collection nor
\* the view offset.
Idle(cv) ==
  /\ ~cv.isDragging /\ cv.editHandle = "null" /\ cv.initialShapeState = None
  /\ cv.selectionBox = None /\ cv.currentShape = None

C29_PointerUpEndsGesture ==
  /\ Idle(handleMouseUp.cv)
  /\ Idle(Canvas) =>
       \A p \in Positions :
         LET w == handleMouseMove(MouseEvent(p.x, p.y, 0, FALSE, FALSE))
         IN w.app.shapes = shapes /\ w.cv.offset = offset

\* A pan drag has moved the view and the pointer-up has ended it: no gesture
\* is left and the view offset is where the drag put it.
C29_Witness ==
  /\ Idle(Canvas)
  /\ offset # Pt(0, 0)
  /\ Len(shapes) > 0
  /\ selectedShapeIds = {}

-----------------------------------------------------------------------------
(* Pattern operations requested with a count below 2.                      *)

\* The counts a pattern operation rejects.
RejectedCounts == {0, 1}

\* C31: a pattern operation requested with a count below 2 is a no-op: the
\* linear pattern command, and a pivot click in circular_pattern mode, leave
\* the collection, the selection, the undo stack and the redo stack as they
\* are.
C31_SmallCountIsNoOp ==
  LET Same(a) == /\ a.shapes = shapes /\ a.sel = selectedShapeIds
                 /\ a.history = history /\ a.future = future
      Click(p, n) == handleMouseDown(MouseEvent(p.x, p.y, 0, FALSE, FALSE),
                                     Toolbar("solid", "none", 2, n))
  IN \A n \in RejectedCounts :
       /\ \A dir \in PatternDirections, sp \in PatternSpacings :
            Same(handleLinearPattern(App, dir, n, sp))
       /\ (mode = "circular_pattern" /\ NoGesture)
            => \A p \in OpsDownPositions : Same(Click(p, n).app)

-----------------------------------------------------------------------------
(* Drawing gestures: the machine started empty, with the drawing tools,    *)
(* the snap button, pointer positions on and off the half-unit grid, and   *)
(* the middle button going down while the left one is held.                *)

\* The id generator hands out at most MaxDrawId ids.
MaxDrawId == 1
\* The undo stack holds at most MaxDrawHist snapshots: the press and the
\* commit of a drawing, and one more press.
MaxDrawHist == 3
\* A freehand stroke is drawn with at most MaxDrawPoints points.
MaxDrawPoints == 2
\* The pan offset stays within MaxDrawPan pixels right of and above the origin.
MaxDrawPan == 33

\* The tools of the toolbar used here.
DrawModes == {"pan", "freehand", "bezier", "rect"}
\* Pointer positions, pixels from the viewport centre: the grid points (0,0),
\* (1.1,0.1), off the half-unit grid, and (-1,-2) at the initial view.
DrawPositions == {Pt(0, 0), Pt(33, -3), Pt(-30, 60)}
\* The left button alone and with Shift, and the middle button.
DrawPresses == {<<0, FALSE, FALSE>>, <<0, TRUE, FALSE>>, <<1, FALSE, FALSE>>}
DrawToolbar == Toolbar("solid", "none", 2, 2)

InitDraw ==
  /\ shapes = <<>>
  /\ history = <<>>
  /\ future = <<>>
  /\ selectedShapeIds = {}
  /\ mode = "pan"
  /\ clipboard = None
  /\ isSnapEnabled = TRUE
  /\ nextId = 1
  /\ scale = 30
  /\ offset = Pt(0, 0)
  /\ isDragging = FALSE
  /\ dragStart = Pt(0, 0)
  /\ drawStart = None
  /\ currentShape = None
  /\ selectionBox = None
  /\ editHandle = "null"
  /\ initialShapeState = None
  /\ ExportClosed

BoundedDraw(w) ==
  /\ Len(w.app.history) <= MaxDrawHist
  /\ w.app.nextId <= MaxDrawId + 1
  /\ w.cv.offset.x \in 0..MaxDrawPan /\ w.cv.offset.y \in -MaxDrawPan..0
  /\ w.cv.currentShape # None
       => Len(OrElse(w.cv.currentShape[1].points, <<>>)) <= MaxDrawPoints

SetWorldDraw(w) ==
  /\ BoundedDraw(w)
  /\ shapes' = w.app.shapes
  /\ history' = w.app.history
  /\ future' = w.app.future
  /\ selectedShapeIds' = w.app.sel
  /\ mode' = w.app.mode
  /\ clipboard' = w.app.clipboard
  /\ nextId' = w.app.nextId
  /\ scale' = w.cv.scale
  /\ offset' = w.cv.offset
  /\ isDragging' = w.cv.isDragging
  /\ dragStart' = w.cv.dragStart
  /\ drawStart' = w.cv.drawStart
  /\ currentShape' = w.cv.currentShape
  /\ selectionBox' = w.cv.selectionBox
  /\ editHandle' = w.cv.editHandle
  /\ initialShapeState' = w.cv.initialShapeState
  /\ UNCHANGED <<isSnapEnabled, exportVars>>

\* A button goes down while none is held.
DrawMouseDown ==
  /\ NoGesture
  /\ \E p \in DrawPositions, m \in DrawPresses :
       SetWorldDraw(handleMouseDown(MouseEvent(p.x, p.y, m[1], m[2], m[3]), DrawToolbar))

\* The middle button goes down while the left one, which started a drawing
\* or a selection box, is still held: mousedown is fired for each button.
SecondMouseDown ==
  /\ ~isDragging
  /\ currentShape # None \/ selectionBox # None
  /\ \E p \in DrawPositions :
       SetWorldDraw(handleMouseDown(MouseEvent(p.x, p.y, 1, FALSE, FALSE), DrawToolbar))

DrawMouseMove ==
  \E p \in DrawPositions :
    SetWorldDraw(handleMouseMove(MouseEvent(p.x, p.y, 0, FALSE, FALSE)))

DrawMouseUp == SetWorldDraw(handleMouseUp)

DrawSetMode ==
  \E m \in DrawModes :
    /\ NoGesture
    /\ SetWorldDraw([app |-> SetModeOf(App, m), cv |-> Canvas])

NextDraw ==
  \/ DrawMouseDown
  \/ SecondMouseDown
  \/ DrawMouseMove
  \/ DrawMouseUp
  \/ DrawSetMode
  \/ ToggleSnap

SpecDraw == InitDraw /\ [][NextDraw]_vars

\* The coordinates a shape stores: its endpoints, its control and text
\* points and the points of its stroke.
StoredCoords(s) ==
  CoordsOf(s) \cup {s.points[1][k].x : k \in 1..Len(OrElse(s.points, <<>>))}
              \cup {s.points[1][k].y : k \in 1..Len(OrElse(s.points, <<>>))}

\* A step that commits the shape being drawn.
CommitStep == currentShape # None /\ Len(shapes') = Len(shapes) + 1

\* C32: with snapping enabled for a whole drawing gesture (the snap button is
\* out of reach during a gesture), every coordinate stored in the shape the
\* gesture commits (endpoints, bezier control points, every point of a
\* freehand stroke) is a multiple of half a grid unit.
C32_SnappedGestureStoresHalfUnits ==
  [][(isSnapEnabled /\ CommitStep)
       => \A v \in StoredCoords(shapes'[Len(shapes')]) : v % 500 = 0]_vars

\* C33: while a bezier is drawn from P1 to the current point P2, its control
\* points lie at 33% and 66% of the vector from P1 to P2 in both
\* coordinates.
C33_BezierControlsAtThirds ==
  (currentShape # None /\ currentShape[1].type = "bezier" /\ currentShape[1].cx1 # None)
    => LET b == currentShape[1]
       IN /\ 100 * (b.cx1[1] - b.x1) = 33 * (b.x2 - b.x1)
          /\ 100 * (b.cy1[1] - b.y1) = 33 * (b.y2 - b.y1)
          /\ 100 * (b.cx2[1] - b.x1) = 66 * (b.x2 - b.x1)
          /\ 100 * (b.cy2[1] - b.y1) = 66 * (b.y2 - b.y1)

\* C32 as amended: with snapping enabled for a whole drawing gesture, the
\* endpoints x1, y1, x2, y2 of the shape the gesture commits and the first
\* point of a freehand stroke are multiples of half a grid unit (the later
\* points of the stroke and the control points of a bezier need not be).
C32_SnappedGestureStoresSnappedEndpoints ==
  [][(isSnapEnabled /\ CommitStep)
       => LET s == shapes'[Len(shapes')]
          IN /\ \A v \in {s.x1, s.y1, s.x2, s.y2} : v % 500 = 0
             /\ s.points # None
                  => s.points[1][1].x % 500 = 0 /\ s.points[1][1].y % 500 = 0]_vars

\* A stroke drawn with snapping enabled from (-1,-2) over (1.1,0.1) is in
\* the collection: its second endpoint was snapped to (1,0), the point of
\* the stroke was not.
C32_Witness ==
  /\ isSnapEnabled /\ NoGesture /\ mode = "freehand"
  /\ Len(shapes) = 1 /\ shapes[1].type = "freehand"
  /\ shapes[1].x1 = -1000 /\ shapes[1].y1 = -2000
  /\ shapes[1].x2 = 1000 /\ shapes[1].y2 = 0
  /\ shapes[1].points = Some(<<Pt(-1000, -2000), Pt(1100, 100)>>)

-----------------------------------------------------------------------------
(* The view: the wheel, the zoom buttons and the view reset, on the empty  *)
(* canvas with its pan drags.  The scale is kept in whole pixels per grid  *)
(* unit: each product is rounded to the nearest pixel.                     *)

\* The wheel deltas: one notch and a long spin, either way.
WheelDeltas == {-3000, -100, 100, 3000}

\* Math.exp(-deltaY * 0.001) in thousandths, at the wheel deltas.
ExpOf(deltaY) ==
  CASE deltaY = -3000 -> 20086
    [] deltaY = -100  -> 1105
    [] deltaY = 100   -> 905
    [] deltaY = 3000  -> 50

\* A wheel handler that clamps the scale from above only.
handleWheelNoFloor(e) ==
  [app |-> App,
   cv |-> [Canvas EXCEPT !.scale = Min2(500, RoundDiv(scale * ExpOf(e.deltaY), 1000))]]

\* setScale(Math.max(5, Math.min(500, scale * s)))
handleWheel(e) ==
  [app |-> App,
   cv |-> [Canvas EXCEPT
             !.scale = Max2(5, Min2(500, RoundDiv(scale * ExpOf(e.deltaY), 1000)))]]

\* ZoomControls: setScale(Math.min(500, scale * 1.2))
zoomIn == [app |-> App, cv |-> [Canvas EXCEPT !.scale = Min2(500, RoundDiv(scale * 12, 10))]]

\* ZoomControls: setScale(Math.max(5, scale / 1.2))
zoomOut == [app |-> App, cv |-> [Canvas EXCEPT !.scale = Max2(5, RoundDiv(scale * 10, 12))]]

\* ZoomControls: setOffset({x: 0, y: 0}); setScale(30)
resetView == [app |-> App, cv |-> [Canvas EXCEPT !.offset = Pt(0, 0), !.scale = 30]]

Wheel == \E d \in WheelDeltas : SetWorld(handleWheel([deltaY |-> d]))

ZoomInButton == NoGesture /\ SetWorld(zoomIn)

ZoomOutButton == NoGesture /\ SetWorld(zoomOut)

ResetViewButton == NoGesture /\ SetWorld(resetView)

\* The left button goes down on the empty canvas: a pan drag.
ViewMouseDown ==
  /\ NoGesture
  /\ \E p \in Positions, tb \in Toolbars :
       SetWorld(handleMouseDown(MouseEvent(p.x, p.y, 0, FALSE, FALSE), tb))

NextView ==
  \/ ViewMouseDown
  \/ MouseMove
  \/ MouseUp
  \/ Wheel
  \/ ZoomInButton
  \/ ZoomOutButton
  \/ ResetViewButton

SpecView == Init /\ [][NextView]_vars

\* C34: in every state reachable by wheel events, zoom-in and zoom-out
\* clicks and view resets, the view scale lies in [5, 500].
C34_ScaleClamped == 5 <= scale /\ scale <= 500

\* The wheel was spun out until the scale met its lower limit, with the
\* view panned.
C34_Witness == scale = 5 /\ offset # Pt(0, 0) /\ NoGesture

-----------------------------------------------------------------------------
(* Guides and the selection.                                               *)

\* Select-all, duplicate, delete and undo, with the focus on the page.
GuideKeyEvents ==
  {KeyEvent("a", TRUE, FALSE, "body"),
   KeyEvent("d", TRUE, FALSE, "body"),
   KeyEvent("Delete", FALSE, FALSE, "body"),
   KeyEvent("z", TRUE, FALSE, "body")}

GuideKeyDown == \E e \in GuideKeyEvents : SetAppOps(handleKeyDown(App, e))

\* The circular pattern and the keys that select and act on the selection.
NextGuide ==
  \/ OpsSetMode
  \/ OpsMouseDown
  \/ GuideKeyDown

SpecGuide == InitOps /\ [][NextGuide]_vars

\* C35: in every reachable state the selection contains no guide shape.
C35_NoGuideSelected ==
  \A i \in 1..Len(shapes) : shapes[i].isGuide => shapes[i].id \notin selectedShapeIds

-----------------------------------------------------------------------------
(* Gestures in pan mode and the undo and redo stacks.                      *)

\* A button goes down in pan mode: a click on a shape, a pan drag or a
\* selection box begins.
PanPressStep == NoGesture /\ mode = "pan" /\ ~NoGesture'

\* A step of a pan drag or of a box-select drag: a move or the release.
PanOrBoxStep ==
  /\ mode = "pan" /\ currentShape = None
  /\ (isDragging /\ editHandle = "null") \/ selectionBox # None

\* C36: pointer gestures that leave the collection unchanged (a click that
\* selects a shape, released in place; a box-select drag; a pan drag) leave
\* the undo stack and the redo stack unchanged: after the press and its
\* release the stacks are what they were before the press, and no step of a
\* pan or box-select drag changes them.
C36_SelectingGesturesKeepStacks ==
  [][/\ PanPressStep => /\ handleMouseUp'.app.shapes = shapes
                        /\ handleMouseUp'.app.history = history
                        /\ handleMouseUp'.app.future = future
     /\ PanOrBoxStep => history' = history /\ future' = future]_vars

-----------------------------------------------------------------------------
(* The gestures of the pointer.                                            *)

\* C37: in every reachable state at most one pointer gesture is active:
\* dragging (isDragging), box-selecting (selectionBox set) and drawing
\* (currentShape set) are pairwise never active together, also after a
\* second button went down before the first was released.
C37_OneGestureAtATime ==
  /\ ~(isDragging /\ selectionBox # None)
  /\ ~(isDragging /\ currentShape # None)
  /\ ~(selectionBox # None /\ currentShape # None)

-----------------------------------------------------------------------------
(* Clicking a shape.                                                       *)

\* The types the drawing tools and the operations create.
CreatableTypes ==
  {"freehand", "line", "bezier", "rect", "round_rect", "circle", "ellipse", "arc",
   "measure", "measure_radius", "mark_angle", "brace", "text"}

\* Pointer positions (whole pixels) on the drawn geometry of a shape: its
\* two defining points and the middles of the edges of its box, where an
\* ellipse touches it.
ClickPoints(s) ==
  LET p1 == gridToScreen(s.x1, s.y1)
      p2 == gridToScreen(s.x2, s.y2)
      mx == (p1.x + p2.x) \div 2
      my == (p1.y + p2.y) \div 2
  IN {Pt(RoundDiv(q.x, 100), RoundDiv(q.y, 100)) :
        q \in {p1, p2, Pt(mx, p1.y), Pt(mx, p2.y), Pt(p1.x, my), Pt(p2.x, my)}}

Clickable(s) ==
  \E p \in ClickPoints(s) : hitTestIn(<<s>>, {}, p.x, p.y).id = s.id

\* C38: every non-guide shape of a creatable type with non-degenerate
\* geometry can be selected by a click: at some pointer position on its
\* drawn geometry the hit test, with nothing selected and no other shape
\* around, returns the shape's id.
C38_EveryShapeClickable ==
  \A i \in 1..Len(shapes) :
    LET s == shapes[i]
    IN (~s.isGuide /\ s.type \in CreatableTypes /\ (s.x1 # s.x2 \/ s.y1 # s.y2))
         => Clickable(s)

-----------------------------------------------------------------------------
(* sendChatMessage: activations with the prompts, responses and errors of  *)
(* the service.                                                            *)

\* The prompt texts and the image the export dialog sends.
Prompts == {<<"code">>, <<"code", " ", "code">>}
InlineImages == {None, Some("image/png")}

\* The texts chat.sendMessage resolves with: none, a blank, code, fenced
\* code and a fence without code.
Responses ==
  {<<>>, <<" ">>, <<"code">>,
   <<"FENCE-latex", "\n", "code", "\n", "FENCE">>,
   <<"FENCE", "\n", "\n", "FENCE">>}

CallStart ==
  /\ call.pc \in {"idle", "returned", "thrown"}
  /\ \E text \in Prompts, inlineData \in InlineImages :
       call' = sendChatMessage(text, inlineData)
  /\ UNCHANGED <<appVars, isSnapEnabled, canvasVars, isExportModalOpen, aiCode,
                 isGenerating, pending>>

CallResponse ==
  /\ call.pc = "send"
  /\ \E r \in Responses : call' = onResponse(call, r)
  /\ UNCHANGED <<appVars, isSnapEnabled, canvasVars, isExportModalOpen, aiCode,
                 isGenerating, pending>>

CallReject ==
  /\ call.pc = "send"
  /\ \E msg \in ErrorMessages : call' = onReject(call, msg)
  /\ UNCHANGED <<appVars, isSnapEnabled, canvasVars, isExportModalOpen, aiCode,
                 isGenerating, pending>>

CallWake ==
  /\ call.pc = "wait"
  /\ call' = onWake(call)
  /\ UNCHANGED <<appVars, isSnapEnabled, canvasVars, isExportModalOpen, aiCode,
                 isGenerating, pending>>

NextChat ==
  \/ CallStart
  \/ CallResponse
  \/ CallReject
  \/ CallWake

SpecChat == Init /\ [][NextChat]_vars

\* What is left of an activation: the sends still allowed, twice, and the
\* await it is at.
Remaining(c) ==
  IF c.pc \in {"send", "wait"}
  THEN 2 * (MAX_RETRIES + 1 - c.sends) + (IF c.pc = "send" THEN 2 ELSE 1)
  ELSE 0

\* C39: sendChatMessage always terminates (each step of an activation brings
\* it nearer to its end), sends the message at most 4 times, retries only
\* after a rate-limit error and never after an empty response, and ends by
\* returning non-empty cleaned text or by throwing an error.
C39_SendTerminates ==
  /\ [](/\ call.sends <= MAX_RETRIES + 1
        /\ call.pc = "wait" => IsRateLimit(call.error[1]) /\ call.error[1] # EmptyResponse
        /\ call.pc = "returned" => call.value[1] # <<>>
        /\ call.pc = "thrown" => call.value # None)
  /\ [][call.pc \in {"send", "wait"}
          => /\ Remaining(call') < Remaining(call)
             /\ call'.pc \in {"send", "wait", "returned", "thrown"}]_vars

-----------------------------------------------------------------------------
(* The export dialog: opening, closing, refining, and the answers of the   *)
(* service to the generations in flight.                                   *)

\* At most MaxPending generations are in flight.
MaxPending == 2

\* JavaScript's !aiCode: null or the empty string
NoAiCode == aiCode = None \/ aiCode = Some(<<>>)

\* The prompt of a conversion and the prompt of a refinement.
ConvertPrompt == <<"code">>
RefinePrompt == <<"code", " ", "code">>

\* generateAiTikz(instruction, isRefining) up to its await, from a state of
\* the dialog g = [aiCode, isGenerating, pending].
generateAiTikz(g, instruction, isRefining) ==
  IF Len(exportShapes(shapes)) = 0 /\ instruction = None THEN g
  ELSE [g EXCEPT !.isGenerating = TRUE,
                 !.pending = Append(@, sendChatMessage(IF isRefining THEN instruction[1]
                                                       ELSE ConvertPrompt, None))]

\* generateAiTikz after its await: setAiCode(result) or, in the catch block,
\* setAiCode of the error text and the standard code; finally
\* setIsGenerating(false).
Settled(g, c) ==
  [g EXCEPT !.aiCode = IF c.pc = "returned" THEN c.value
                       ELSE Some(<<"% AI Error: ", c.value[1], "\n", "code">>),
            !.isGenerating = FALSE]

Dialog == [aiCode |-> aiCode, isGenerating |-> isGenerating, pending |-> pending]

SetDialog(g) ==
  /\ Len(g.pending) <= MaxPending
  /\ aiCode' = g.aiCode
  /\ isGenerating' = g.isGenerating
  /\ pending' = g.pending
  /\ UNCHANGED <<appVars, isSnapEnabled, canvasVars, call>>

\* A collection of one drawn line, or none.
InitExport ==
  /\ shapes \in {<<>>, <<Drawn(1, "line", 0, 0, 1000, 0)>>}
  /\ history = DrawnHistory(shapes)
  /\ future = <<>>
  /\ selectedShapeIds = {}
  /\ mode = "pan"
  /\ clipboard = None
  /\ isSnapEnabled = TRUE
  /\ nextId = Len(shapes) + 1
  /\ scale = 30
  /\ offset = Pt(0, 0)
  /\ isDragging = FALSE
  /\ dragStart = Pt(0, 0)
  /\ drawStart = None
  /\ currentShape = None
  /\ selectionBox = None
  /\ editHandle = "null"
  /\ initialShapeState = None
  /\ ExportClosed

\* An export button: setIsExportModalOpen(true), and the effect on [isOpen]
\* that starts a generation.
OpenExport ==
  /\ ~isExportModalOpen
  /\ isExportModalOpen' = TRUE
  /\ SetDialog(IF Len(shapes) > 0 /\ NoAiCode /\ ~isGenerating
               THEN generateAiTikz(Dialog, None, FALSE) ELSE Dialog)

\* onClose: setIsExportModalOpen(false), and the effect on [isOpen] that
\* resets the dialog.
CloseExport ==
  /\ isExportModalOpen
  /\ isExportModalOpen' = FALSE
  /\ SetDialog([Dialog EXCEPT !.aiCode = None, !.isGenerating = FALSE])

\* handleRefine with a prompt typed: the submit button, or Enter in the
\* prompt field.
Refine ==
  /\ isExportModalOpen
  /\ UNCHANGED isExportModalOpen
  /\ SetDialog(generateAiTikz(Dialog, Some(RefinePrompt), TRUE))

\* The texts and errors the service answers with here.
ExportResponses == {<<"code">>, <<" ">>}
ExportErrors == {"429 Too Many Requests", "fetch failed"}

\* The activation i of generateAiTikz goes on with the activation c of
\* sendChatMessage: it stays in flight or it settles.
Continue(i, c) ==
  LET rest == [k \in 1..(Len(pending) - 1) |-> IF k < i THEN pending[k] ELSE pending[k + 1]]
  IN IF c.pc \in {"returned", "thrown"}
     THEN SetDialog(Settled([Dialog EXCEPT !.pending = rest], c))
     ELSE SetDialog([Dialog EXCEPT !.pending[i] = c])

ServiceAnswers ==
  /\ UNCHANGED isExportModalOpen
  /\ \E i \in 1..Len(pending) :
       /\ pending[i].pc = "send"
       /\ \/ \E r \in ExportResponses : Continue(i, onResponse(pending[i], r))
          \/ \E msg \in ExportErrors : Continue(i, onReject(pending[i], msg))

RetryTimer ==
  /\ UNCHANGED isExportModalOpen
  /\ \E i \in 1..Len(pending) :
       pending[i].pc = "wait" /\ Continue(i, onWake(pending[i]))

NextExport ==
  \/ OpenExport
  \/ CloseExport
  \/ Refine
  \/ ServiceAnswers
  \/ RetryTimer

SpecExport == InitExport /\ [][NextExport]_vars

\* C40: a generation result that arrives after the export dialog was closed
\* is discarded: while the dialog is closed aiCode is null and isGenerating
\* is false, and every reopening with a non-empty collection starts a new
\* generation.
C40_LateResultDiscarded ==
  /\ [](~isExportModalOpen => aiCode = None /\ ~isGenerating)
  /\ [][(~isExportModalOpen /\ isExportModalOpen' /\ Len(shapes) > 0)
          => isGenerating' /\ Len(pending') = Len(pending) + 1]_vars

====
